---- MODULE Spec2Model ----
(***************************************************************************)
(* vk_denoise_nrd: one pixel of one rendered frame, followed through       *)
(* NRDEngine::onRender: the ray generation shader nrd.rgen (primary        *)
(* surface replacement, G-buffer writes, direct lighting, the diffuse and  *)
(* the specular indirect path with pathtrace.rchit / pathtrace.rmiss), the *)
(* NRD denoise() call(s), the compositor compositing.comp and the rest of  *)
(* the frame.  Frames repeat.  The passes of a frame run in the order      *)
(* onRender records them and see each other's writes.                      *)
(*                                                                         *)
(* Numbers.  Radiance is one grey channel (the three channels of the       *)
(* shader are treated alike by every operation modelled here) and an       *)
(* integer.  Colours and reflectances in [0,1] are integers in units of    *)
(* 1/ColorUnit, roughness.x in units of 1/1000000.  Distances are integers *)
(* below NRD_INF.  Directions and normals are integer vectors of the       *)
(* plane: diagonal ray directions and axis-aligned normals, so that        *)
(* reflect() and the mirror matrices stay exact; N.V keeps its sign.  A    *)
(* demodulated radiance x / f is kept as the pair of x and f.              *)
(*                                                                         *)
(* Libraries.  NRD's packing functions are tagged records of their         *)
(* arguments.  EnvironmentTerm_Rtg is a function the model does not        *)
(* compute: the ray generation shader gets some value for its arguments,   *)
(* the compositor gets the same value for the same arguments and some      *)
(* value for other arguments.  A denoiser leaves in its output either its  *)
(* input texel or some other radiance.                                     *)
(*                                                                         *)
(* Specifications.  Spec follows the pixel.  HostSpec follows the command  *)
(* buffer and the Vulkan objects of the engine and of the NRDWrapper,      *)
(* UserPoolSpec a wrapper whose user pool is re-pointed, PipelinesSpec     *)
(* createPipelines and one dispatch for every library description.         *)
(* FrameSpec follows the members of the engine from frame to frame: the    *)
(* UI, the file drops, the push constants and the settings handed to NRD.  *)
(* HaltonSpec follows one call of halton.                                  *)
(***************************************************************************)
EXTENDS Integers, Sequences, FiniteSets, TLC

VARIABLES
  pc,        \* position in onRender / in the shader of the pixel
  scene,     \* what the rays of the pixel can meet in this frame
  frame,     \* m_pushConst and m_frameInfo of the frame, as the shaders see them
  pool,      \* NRDWrapper::m_userTexturePool: resource type -> G-buffer
  img,       \* the pixel's texel in every G-buffer image
  rg,        \* locals of nrd.rgen main(): PSR state, toEye, VdotN, ...
  pbrMat,    \* nrd.rgen: PbrMaterial pbrMat (material at the last hit)
  payload,   \* HitPayload payload (indirect path)
  lobe,      \* locals of the STEP 3 / STEP 4 block being executed
  seg,       \* the last indirect segment traced: which shader ran, distance
  cnt,       \* number of rays traced by the pixel in this frame, per kind
  envTerm,   \* the point of EnvironmentTerm_Rtg that nrd.rgen evaluated
  comp,      \* locals of compositing.comp main()
  host,      \* what the application has last done with the NRDEngine element
  NDEBUG,    \* the build: TRUE when assert() is compiled out
  iDesc,     \* nrd::InstanceDesc of the NRD library the program is linked with
  m_gBuffers,\* NRDEngine::m_gBuffers: number of the current G-buffer set
  m_viewSize,\* NRDEngine::m_viewSize (one number for width and height)
  m_frame,   \* NRDEngine::m_frame
  m_nrd,     \* NRDEngine::m_nrd: the NRDWrapper object and its members
  device,    \* the Vulkan device: live objects, image contents, calls made
  cmd,       \* the command buffer onRender records into
  nrdLists,  \* the dispatch lists nrd::GetComputeDispatches returned in onRender
  m_pushConst,    \* NRDEngine::m_pushConst: frame, maxDepth, method
  m_settings,     \* NRDEngine::m_settings: maxFrames, maxDepth
  m_denoiserSettings, \* NRDEngine::m_reblurSettings and m_relaxSettings
  m_nrdSettings,  \* NRDEngine::m_nrdSettings (nrd::CommonSettings)
  CameraManip,    \* the camera manipulator: its matrix and its field of view
  m_scene,        \* NRDEngine::m_scene: whether a scene is loaded
  nrdSettingsLog, \* the CommonSettings the NRD library was handed last, if any
  haltonCall      \* locals of a call of halton(index)

pixelVars == <<pc, scene, frame, pool, img, rg, pbrMat, payload, lobe, seg, cnt, envTerm, comp>>

memberVars == <<m_pushConst, m_settings, m_denoiserSettings, m_nrdSettings, CameraManip, m_scene,
                nrdSettingsLog>>

engineVars == <<memberVars, haltonCall>>

hostVars == <<host, NDEBUG, iDesc, m_gBuffers, m_viewSize, m_frame, m_nrd, device, cmd, nrdLists, engineVars>>

vars == <<pc, scene, frame, pool, img, rg, pbrMat, payload, lobe, seg, cnt, envTerm, comp,
          host, NDEBUG, iDesc, m_gBuffers, m_viewSize, m_frame, m_nrd, device, cmd, nrdLists,
          engineVars>>

----------------------------------------------------------------------------
\* Bounds of the exploration

\* largest m_settings.maxDepth explored (the UI slider allows 1..10)
MaxDepthBound == 3

----------------------------------------------------------------------------
\* Program constants

NRD_INF == 1000000
PsrMaxDepth == 5
NRD_RELAX == 0
NRD_REBLUR == 1
NRD_REFERENCE == 2
\* pc.maxLuminance
MaxLuminance == 10
\* 1.0 of a colour, reflectance or roughness
ColorUnit == 100 * 100
\* (MICROFACET_MIN_ROUGHNESS^2 + 0.001) in units of 1/1000000: the largest
\* roughness.x still treated as a mirror
MirrorRoughnessLimit == 1002

Methods == {NRD_RELAX, NRD_REBLUR, NRD_REFERENCE}

\* values of a radiance term (environment, emission, light sample)
Radiances == {0, 1}

----------------------------------------------------------------------------
\* Vector helpers (GLSL built-ins)

dot(a, b) == a[1] * b[1] + a[2] * b[2]

neg(a) == <<-a[1], -a[2]>>

abs(x) == IF x < 0 THEN -x ELSE x

max(a, b) == IF a > b THEN a ELSE b

\* GLSL reflect(I, N) = I - 2 dot(N, I) N
reflect(I, N) == <<I[1] - 2 * dot(N, I) * N[1], I[2] - 2 * dot(N, I) * N[2]>>

\* a matrix is the tuple of its columns
identity == <<<<1, 0>>, <<0, 1>>>>

matVec(M, v) == <<M[1][1] * v[1] + M[2][1] * v[2], M[1][2] * v[1] + M[2][2] * v[2]>>

matMul(A, B) == <<matVec(A, B[1]), matVec(A, B[2])>>

\* ray_common.glsl buildMirrorMatrix
buildMirrorMatrix(normal) ==
  << <<-2 * normal[1] * normal[1] + 1, -2 * normal[1] * normal[2]>>,
     <<-2 * normal[2] * normal[1], -2 * normal[2] * normal[2] + 1>> >>

\* integer square root of a perfect square (sqrt(pbrMat.roughness.x))
sqrt(a) == CHOOSE r \in 0..1000 : r * r = a

----------------------------------------------------------------------------
\* Scenes: what the rays of the pixel can meet.  Four kinds of scene are
\* explored; each varies one part of the frame and keeps the rest plain.
\*   "mirrors"  : chains of mirrors in front of the camera
\*   "surfaces" : the materials of the primary surface
\*   "diffuse"  : the indirect diffuse path
\*   "specular" : the indirect specular path

SceneNames == {"mirrors", "surfaces", "diffuse", "specular"}

\* pbrMat.N of a hit: the two faces of a floor and of a wall
Normals == {<<0, 1>>, <<0, -1>>, <<1, 0>>, <<-1, 0>>}

\* a rough white dielectric facing the camera ray
PlainMaterial ==
  [baseColor |-> ColorUnit, emissive |-> 0, roughness |-> 1000 * 1000, metallic |-> 0, N |-> <<0, 1>>]

\* PbrMaterial as evaluateMaterial() returns it at a primary hit: baseColor in
\* 1/ColorUnit, roughness.x (alpha) in 1/1000000, metallic 0 or 1
PrimaryMaterials(s) ==
  CASE s = "mirrors"  -> [baseColor : {ColorUnit}, emissive : Radiances, roughness : {961, 1024},
                          metallic : {0, 1}, N : {<<0, 1>>, <<-1, 0>>}]
    [] s = "surfaces" -> [baseColor : {0, 5000, ColorUnit}, emissive : {0}, roughness : {961, 1000 * 1000},
                          metallic : {0, 1}, N : Normals]
    [] OTHER          -> {PlainMaterial}

\* gl_HitTEXT of a primary hit
PrimaryDists(s) == IF s = "mirrors" THEN {1, 2} ELSE {1}

\* specBsdfSample.bsdf_over_pdf of a mirror
MirrorWeights(s) == IF s \in {"mirrors", "surfaces"} THEN {0, 1} ELSE {1}

\* the values of m_pushConst.method explored
SceneMethods(s) == IF s = "mirrors" THEN {NRD_REBLUR} ELSE Methods

\* number of mirrors in front of the camera
MirrorBudget(s) == IF s = "surfaces" THEN 1 ELSE PsrMaxDepth + 1

\* the values of m_settings.maxDepth explored
Depths(s) == IF s \in {"diffuse", "specular"} THEN 1..MaxDepthBound ELSE {2}

\* hdrDiffuseRadiance / hdrSpecularRadiance out of HdrContrib when the
\* environment sample is valid and unoccluded
HdrRadiances(s, l) == IF s = l THEN Radiances ELSE {0}

\* event_type of the BSDF sample at the primary surface, per lobe
LobeEvents(s, l) ==
  CASE s = "mirrors" -> {"absorb"}
    [] s = "surfaces" -> {"reflect"}
    [] OTHER -> IF s = l THEN {"absorb", "reflect"} ELSE {"absorb"}

\* bsdf_over_pdf * lobe ratio at the primary surface, and result.weight
Weights(s) == IF s \in {"diffuse", "specular"} THEN {1, 4} ELSE {1}

\* what an indirect segment can meet
\*   a miss: the MIS-weighted environment radiance
\*   a hit : gl_HitTEXT, pbrMat.emissive, the light sample (none, occluded,
\*           visible), the event of the next BSDF sample and its weight
Segments(s) ==
  IF s \in {"diffuse", "specular"}
  THEN [shader : {"rmiss"}, env : Radiances]
       \cup {o \in [shader : {"rchit"}, d : {1, 2}, emissive : {0},
                    light : {"none", "occluded", "visible"}, event : {"absorb", "reflect"},
                    weight : Weights(s)] : o.event = "absorb" => o.weight = 1}
  ELSE {[shader |-> "rchit", d |-> 1, emissive |-> 1, light |-> "none", event |-> "absorb", weight |-> 1]}

\* values of EnvironmentTerm_Rtg, in 1/ColorUnit
FenvVals(s) == IF s = "surfaces" THEN {0, ColorUnit} ELSE {ColorUnit}

----------------------------------------------------------------------------
\* G-buffers (RealtimeDenoiser.cpp, enum GbufferNames) and the NRD user pool

\* eGBufLdr and eGBufBaseColorMetalness are the same image
eGBufLdr == "BaseColorMetalness"

GbufferNames ==
  {eGBufLdr, "OutDiffRadianceHitDist", "DiffRadianceHitDist", "SpecRadianceHitDist",
   "OutSpecRadianceHitDist", "NormalRoughness", "MotionVectors", "ViewZ", "OutDebugView",
   "DenoisedUnpacked", "DirectLighting", "Taa"}

\* the user pool that onResize hands to the NRDWrapper constructor
userTexturePool ==
  [r \in {"IN_DIFF_RADIANCE_HITDIST", "IN_SPEC_RADIANCE_HITDIST", "IN_NORMAL_ROUGHNESS", "IN_MV",
          "IN_VIEWZ", "OUT_DIFF_RADIANCE_HITDIST", "OUT_SPEC_RADIANCE_HITDIST", "OUT_VALIDATION",
          "IN_SIGNAL", "OUT_SIGNAL"} |->
     CASE r = "IN_DIFF_RADIANCE_HITDIST"  -> "DiffRadianceHitDist"
       [] r = "IN_SPEC_RADIANCE_HITDIST"  -> "SpecRadianceHitDist"
       [] r = "IN_NORMAL_ROUGHNESS"       -> "NormalRoughness"
       [] r = "IN_MV"                     -> "MotionVectors"
       [] r = "IN_VIEWZ"                  -> "ViewZ"
       [] r = "OUT_DIFF_RADIANCE_HITDIST" -> "OutDiffRadianceHitDist"
       [] r = "OUT_SPEC_RADIANCE_HITDIST" -> "OutSpecRadianceHitDist"
       [] r = "OUT_VALIDATION"            -> "OutDebugView"
       [] r = "IN_SIGNAL"                 -> "DiffRadianceHitDist"
       [] r = "OUT_SIGNAL"                -> "OutDiffRadianceHitDist"]

\* a texel nobody wrote since the image was created / since an earlier frame
Undefined == [tag |-> "undefined"]
Stale == [tag |-> "stale"]

\* vec4(0) in a radiance / hit distance image
ZeroRadiance == [tag |-> "radiance", packing |-> "none", radiance |-> [x |-> 0, f |-> 1], w |-> [kind |-> "const", d |-> 0]]

----------------------------------------------------------------------------
\* Shader locals outside their lifetime

NoMaterial == [baseColor |-> 0, emissive |-> 0, roughness |-> 0, metallic |-> 0, N |-> <<0, 0>>]

\* nrd.rgen main(), lines 268-290
rgenLocals(orgDirection) ==
  [direction |-> orgDirection, toEye |-> neg(orgDirection), hitSky |-> FALSE, isPsr |-> FALSE,
   psrHitDist |-> 0, psrThroughput |-> 1, psrDirectRadiance |-> 0, psrMirror |-> identity,
   psrDepth |-> 0, g_viewZ |-> 0, VdotN |-> 0, hdrDiffuseRadiance |-> 0, hdrSpecularRadiance |-> 0]

NoRgen == rgenLocals(<<0, 0>>)

NoPayloadNrd == [hitT |-> 0, normal_envmapRadiance |-> 0]

NoPayload == [contrib |-> 0, weight |-> 1, hitT |-> 0, ray |-> 0]

NoLobe == [name |-> "none", accum |-> 0, pathLength |-> 0, throughput |-> 0, depth |-> 0,
           absorbed |-> FALSE, clamped |-> FALSE, hitTs |-> <<>>]

NoSeg == [ray |-> 0, o |-> [shader |-> "none"]]

NoCount == [primary |-> 0, shadow |-> 0, diffuse |-> 0, specular |-> 0]

NoEnvTerm == [evaluated |-> FALSE]

NoComp == [ran |-> FALSE]

\* m_pushConst as constructed (lines 1326-1334)
NoFrame == [method |-> NRD_REBLUR, maxDepth |-> 7, pixelDir |-> <<0, 0>>]

\* the host side while one pixel is followed through a frame
NoInstanceDesc == [pipelines |-> <<>>]
NoWrapper == [alive |-> FALSE]
NoDevice == [live |-> {}, layout |-> <<>>, content |-> <<>>, extent |-> <<>>, pending |-> <<>>, calls |-> <<>>]

\* the cameras the manipulator is moved between: matrix and field of view
Cameras == {[matrix |-> "home", fov |-> 45], [matrix |-> "orbit", fov |-> 60]}

\* m_nrdSettings = {} (line 1352), with the member initialisers of
\* nrd::CommonSettings: zero matrices (a projection of no field of view) and
\* jitter, frame index 0, CONTINUE
NoCommonSettings ==
  [viewToClipMatrix |-> [fov |-> 0, flipped |-> FALSE],
   viewToClipMatrixPrev |-> [fov |-> 0, flipped |-> FALSE],
   worldToViewMatrix |-> "zero", worldToViewMatrixPrev |-> "zero",
   cameraJitter |-> << <<0, 1>>, <<0, 1>> >>, cameraJitterPrev |-> << <<0, 1>>, <<0, 1>> >>,
   frameIndex |-> 0, accumulationMode |-> "CONTINUE"]

NoHaltonCall == [at |-> "idle"]

\* the members of the NRDEngine as constructed (lines 127-134, 1326-1336,
\* 1352-1354): no scene is loaded yet
EngineInit ==
  /\ m_pushConst = [frame |-> -1, maxDepth |-> 7, method |-> NRD_REBLUR]
  /\ m_settings = [maxFrames |-> 200000, maxDepth |-> 5]
  /\ m_denoiserSettings = [reblur |-> "default", relax |-> "default"]
  /\ m_nrdSettings = NoCommonSettings
  /\ CameraManip = CHOOSE c \in Cameras : c.matrix = "home" /\ c.fov = 45
  /\ m_scene = [valid |-> FALSE]
  /\ nrdSettingsLog = <<>>
  /\ haltonCall = NoHaltonCall

----------------------------------------------------------------------------
\* The state after the NRDEngine is constructed and onResize has run

PixelInit ==
  /\ pc = "idle"
  /\ scene = "none"
  /\ frame = NoFrame
  /\ pool = userTexturePool
  /\ img = [g \in GbufferNames |-> Undefined]
  /\ rg = NoRgen
  /\ pbrMat = NoMaterial
  /\ payload = NoPayload
  /\ lobe = NoLobe
  /\ seg = NoSeg
  /\ cnt = NoCount
  /\ envTerm = NoEnvTerm
  /\ comp = NoComp

Init ==
  /\ PixelInit
  /\ EngineInit
  /\ host = "rendering"
  /\ NDEBUG = FALSE
  /\ iDesc = NoInstanceDesc
  /\ m_gBuffers = 1
  /\ m_viewSize = 1
  /\ m_frame = 0
  /\ m_nrd = NoWrapper
  /\ device = NoDevice
  /\ cmd = <<>>
  /\ nrdLists = <<>>

----------------------------------------------------------------------------
\* NRDEngine::onRender up to the launch of the ray generation shader: the
\* frame's push constants and frame info are set and nrd.rgen main() starts
\* for the pixel (lines 252-290).  The scene and the UI settings are inputs.

onRenderBegin ==
  /\ UNCHANGED hostVars
  /\ pc = "idle"
  /\ \E s \in SceneNames :
       \E method \in SceneMethods(s), maxDepth \in Depths(s) :
         /\ scene' = s
         /\ frame' = [method |-> method, maxDepth |-> maxDepth, pixelDir |-> <<1, -1>>]
  /\ rg' = rgenLocals(<<1, -1>>)
  /\ pbrMat' = NoMaterial
  /\ payload' = NoPayload
  /\ lobe' = NoLobe
  /\ seg' = NoSeg
  /\ cnt' = NoCount
  /\ envTerm' = NoEnvTerm
  /\ comp' = NoComp
  /\ pc' = "psr"
  /\ UNCHANGED <<pool, img>>

----------------------------------------------------------------------------
\* STEP 1 of nrd.rgen: primary surface replacement

\* nrd.rmiss main()
nrd_rmiss(p, env) == [p EXCEPT !.normal_envmapRadiance = env, !.hitT = NRD_INF]

\* nrd.rchit main()
nrd_rchit(p, gl_HitTEXT, nrm) == [p EXCEPT !.hitT = gl_HitTEXT, !.normal_envmapRadiance = nrm]

\* line 308
isHitSky(p) == p.hitT = NRD_INF

\* line 323: did we hit anything other than a mirror?
isNonMirror(mat) == mat.roughness > MirrorRoughnessLimit \/ mat.metallic < 1

\* the do-while without its bound
psrLoopUnbounded(psrDepth) == TRUE

\* line 357: the condition of the do-while
psrLoopCondition(psrDepth) == psrDepth < PsrMaxDepth

\* one iteration whose ray leaves the scene (lines 293-313)
PsrMiss ==
  /\ UNCHANGED hostVars
  /\ pc = "psr"
  /\ \E env \in Radiances :
       LET p == nrd_rmiss([NoPayloadNrd EXCEPT !.hitT = 0], env) IN
         /\ isHitSky(p)
         /\ rg' = [rg EXCEPT !.hitSky = TRUE,
                             !.psrDirectRadiance = @ + rg.psrThroughput * p.normal_envmapRadiance]
  /\ cnt' = [cnt EXCEPT !.primary = @ + 1]
  /\ pc' = "psr_exit"
  /\ UNCHANGED <<scene, frame, pool, img, pbrMat, payload, lobe, seg, envTerm, comp>>

\* one iteration whose ray hits something other than a mirror (lines 293-326)
PsrHit ==
  /\ UNCHANGED hostVars
  /\ pc = "psr"
  /\ \E d \in PrimaryDists(scene), mat \in PrimaryMaterials(scene) :
       LET p == nrd_rchit([NoPayloadNrd EXCEPT !.hitT = 0], d, mat.N) IN
         /\ ~isHitSky(p)
         /\ isNonMirror(mat)
         /\ rg' = [rg EXCEPT !.hitSky = FALSE, !.psrHitDist = @ + p.hitT]
         /\ pbrMat' = mat
  /\ cnt' = [cnt EXCEPT !.primary = @ + 1]
  /\ pc' = "psr_exit"
  /\ UNCHANGED <<scene, frame, pool, img, payload, lobe, seg, envTerm, comp>>

\* one iteration whose ray hits a mirror (lines 293-357)
PsrMirror ==
  /\ UNCHANGED hostVars
  /\ pc = "psr"
  /\ rg.psrDepth < MirrorBudget(scene)
  /\ \E d \in PrimaryDists(scene), mat \in PrimaryMaterials(scene), bsdf_over_pdf \in MirrorWeights(scene) :
       LET p == nrd_rchit([NoPayloadNrd EXCEPT !.hitT = 0], d, mat.N) IN
         /\ ~isHitSky(p)
         /\ ~isNonMirror(mat)
         /\ rg' = [rg EXCEPT !.hitSky = FALSE,
                             !.psrHitDist = @ + p.hitT,
                             !.isPsr = TRUE,
                             !.psrDirectRadiance = @ + rg.psrThroughput * mat.emissive,
                             !.psrThroughput = @ * bsdf_over_pdf,
                             !.psrMirror = matMul(@, buildMirrorMatrix(mat.N)),
                             !.direction = reflect(@, mat.N),
                             !.psrDepth = @ + 1]
         /\ pbrMat' = mat
  /\ cnt' = [cnt EXCEPT !.primary = @ + 1]
  /\ pc' = IF psrLoopCondition(rg'.psrDepth) THEN "psr" ELSE "psr_exit"
  /\ UNCHANGED <<scene, frame, pool, img, payload, lobe, seg, envTerm, comp>>

----------------------------------------------------------------------------
\* Image formats (createGbuffers) and colour encodings

\* nvvkhl toSrgb / toLinear, in 1/ColorUnit, on the values that occur
toSrgb(c) == CASE c = 0 -> 0 [] c = 5000 -> 7354 [] c = ColorUnit -> ColorUnit

toLinear(v) == CASE v = 0 -> 0 [] v = 7373 -> 5029 [] v = ColorUnit -> ColorUnit

\* a channel of a VK_FORMAT_R8G8B8A8_UNORM image: stored code, loaded value
storeUnorm8(v) == (v * 255 + (ColorUnit \div 2)) \div ColorUnit

loadUnorm8(k) == (k * ColorUnit + 127) \div 255

\* NRD_FrontEnd_PackNormalAndRoughness / NRD_FrontEnd_UnpackNormalAndRoughness
PackNormalAndRoughness(N, roughness, materialType) ==
  [tag |-> "normalRoughness", N |-> N, roughness |-> roughness, materialType |-> materialType]

UnpackNormalAndRoughness(t) == [xyz |-> t.N, w |-> t.roughness]

----------------------------------------------------------------------------
\* nrd.rgen after the PSR loop

\* a sky pixel stored like a surface pixel
skyDirectLightingOpaque(psrDirectRadiance) == [tag |-> "direct", rgb |-> psrDirectRadiance, a |-> 1]

\* line 362: vec4(psrDirectRadiance, 0.0)
skyDirectLighting(psrDirectRadiance) == [tag |-> "direct", rgb |-> psrDirectRadiance, a |-> 0]

\* lines 360-368: early out when hitting sky (even via mirrors)
SkyEarlyOut ==
  /\ UNCHANGED hostVars
  /\ pc = "psr_exit"
  /\ rg.hitSky
  /\ img' = [img EXCEPT !["DirectLighting"] = skyDirectLighting(rg.psrDirectRadiance),
                        !["DiffRadianceHitDist"] = ZeroRadiance,
                        !["SpecRadianceHitDist"] = ZeroRadiance,
                        !["NormalRoughness"] = PackNormalAndRoughness(<<0, 0>>, 0, "zero"),
                        !["ViewZ"] = [tag |-> "viewZ", z |-> -NRD_INF]]
  /\ pc' = "denoise"
  /\ UNCHANGED <<scene, frame, pool, rg, pbrMat, payload, lobe, seg, cnt, envTerm, comp>>

\* lines 376
materialType(isPsr, metallic) == IF isPsr THEN "PSR" ELSE IF metallic = 1 THEN "METAL" ELSE "DEFAULT"

\* lines 370-409: the G-buffer writes of a hit pixel and the tinting of the
\* material by the mirrors in front of it
WriteGBuffer ==
  /\ UNCHANGED hostVars
  /\ pc = "psr_exit"
  /\ ~rg.hitSky
  /\ LET g_viewZ == -rg.psrHitDist
         worldNormal == matVec(rg.psrMirror, pbrMat.N)
         tinted == [pbrMat EXCEPT !.baseColor = @ * rg.psrThroughput,
                                  !.emissive = @ * rg.psrThroughput + rg.psrDirectRadiance]
         toEye == neg(rg.direction)
     IN /\ pbrMat' = tinted
        /\ rg' = [rg EXCEPT !.g_viewZ = g_viewZ, !.toEye = toEye, !.VdotN = dot(toEye, pbrMat.N)]
        /\ img' = [img EXCEPT
             !["ViewZ"] = [tag |-> "viewZ", z |-> g_viewZ],
             !["NormalRoughness"] =
                PackNormalAndRoughness(worldNormal, sqrt(pbrMat.roughness),
                                       materialType(rg.isPsr, pbrMat.metallic)),
             !["MotionVectors"] = [tag |-> "motion", mv |-> 0],
             ![eGBufLdr] = [tag |-> "baseColorMetalness",
                            rgb |-> storeUnorm8(toSrgb(tinted.baseColor)),
                            w |-> storeUnorm8(tinted.metallic * ColorUnit)]]
  /\ pc' = "direct"
  /\ UNCHANGED <<scene, frame, pool, payload, lobe, seg, cnt, envTerm, comp>>

\* pathtrace.rmiss main(); env is the MIS-weighted environment radiance
pathtrace_rmiss(p, env) == [p EXCEPT !.contrib = env, !.hitT = NRD_INF]

\* DirectLight(): NB_LIGHTS is 0, the loop over the lights is compiled out
DirectLight == 0

\* STEP 2, lines 416-426: HdrContrib (lines 150-209) samples the environment
\* once; when the sample is usable it traces one shadow ray, which runs
\* pathtrace.rmiss if nothing is in the way.  Then the direct lighting is
\* stored.
DirectLighting ==
  /\ UNCHANGED hostVars
  /\ pc = "direct"
  /\ \/ \* the sample is below the surface or has a zero pdf: no shadow ray
        /\ rg' = [rg EXCEPT !.hdrDiffuseRadiance = 0, !.hdrSpecularRadiance = 0]
        /\ UNCHANGED <<payload, cnt>>
     \/ \* the shadow ray is blocked
        /\ rg' = [rg EXCEPT !.hdrDiffuseRadiance = 0, !.hdrSpecularRadiance = 0]
        /\ payload' = [payload EXCEPT !.hitT = 0]
        /\ cnt' = [cnt EXCEPT !.shadow = @ + 1]
     \/ \* the shadow ray reaches the environment
        \E diffRadiance \in HdrRadiances(scene, "diffuse"), specRadiance \in HdrRadiances(scene, "specular") :
          LET p == pathtrace_rmiss([payload EXCEPT !.hitT = 0], 1) IN
            /\ abs(p.hitT) = NRD_INF
            /\ rg' = [rg EXCEPT !.hdrDiffuseRadiance = diffRadiance,
                                !.hdrSpecularRadiance = specRadiance]
            /\ payload' = p
            /\ cnt' = [cnt EXCEPT !.shadow = @ + 1]
  /\ LET directLum == DirectLight + rg.psrDirectRadiance + pbrMat.emissive IN
       img' = [img EXCEPT !["DirectLighting"] = [tag |-> "direct", rgb |-> directLum, a |-> 1]]
  /\ pc' = "diffuse_sample"
  /\ UNCHANGED <<scene, frame, pool, pbrMat, lobe, seg, envTerm, comp>>

----------------------------------------------------------------------------
\* The closest-hit shader of the indirect path

\* the closest-hit shader without the restore of line 157
keepShadowHitT(p, gl_HitTEXT) == p

\* pathtrace.rchit line 157: restore the hit distance after the shadow ray
restoreHitT(p, gl_HitTEXT) == [p EXCEPT !.hitT = gl_HitTEXT]

\* pathtrace.rchit shading() lines 146-150: the shadow ray of the light
\* sample; pathtrace.rmiss runs on the same payload if nothing is in the way
shadowRay(p, light) ==
  IF light = "visible" THEN pathtrace_rmiss([p EXCEPT !.hitT = 0], 1) ELSE [p EXCEPT !.hitT = 0]

\* pathtrace.rchit lines 168-172: stop path, yet return the hit distance
absorbHitT(p) == [p EXCEPT !.hitT = -p.hitT]

\* pathtrace.rchit main() with shading().  o describes the hit; nextRay names
\* the follow-up ray.  On an absorption result.weight and the follow-up ray
\* are left uninitialised: o.weight and nextRay then stand for whatever
\* they hold.
pathtrace_rchit(p, o, nextRay) ==
  LET pHit    == [p EXCEPT !.hitT = o.d]
      pShadow == IF o.light = "none" THEN pHit ELSE shadowRay(pHit, o.light)
      contribution == 1
      contrib == o.emissive
                   + (IF o.light # "none" /\ abs(pShadow.hitT) = NRD_INF THEN contribution ELSE 0)
      pBack   == IF o.light = "none" THEN pShadow ELSE restoreHitT(pShadow, o.d)
      pEvent  == IF o.event = "absorb" THEN absorbHitT(pBack) ELSE pBack
  IN [pEvent EXCEPT !.weight = o.weight, !.contrib = contrib, !.ray = nextRay]

\* what traceRayEXT does to the payload of an indirect segment
traceIndirect(p, o, nextRay) ==
  IF o.shader = "rmiss" THEN pathtrace_rmiss(p, o.env) ELSE pathtrace_rchit(p, o, nextRay)

----------------------------------------------------------------------------
\* STEP 3 (diffuse) and STEP 4 (specular) of nrd.rgen.  l names the lobe.

Lobes == {"diffuse", "specular"}

AtSample(l) == IF l = "diffuse" THEN "diffuse_sample" ELSE "specular_sample"
AtLoop(l) == IF l = "diffuse" THEN "diffuse_loop" ELSE "specular_loop"
AtWrite(l) == IF l = "diffuse" THEN "diffuse_write" ELSE "specular_write"

\* accumulators that start at zero
noHdrRadiance(l) == 0

\* lines 434 / 532: the accumulator starts with the environment sample
hdrRadiance(l) == IF l = "diffuse" THEN rg.hdrDiffuseRadiance ELSE rg.hdrSpecularRadiance

\* lines 467 / 564: the value the loop puts in payload.hitT before a trace
presetHitT(l) == IF l = "diffuse" THEN NRD_INF ELSE -NRD_INF

\* lines 465 / 562: the condition of the bounce loop
loopCondition(depth, maxDepth) == depth < maxDepth

\* every segment taken for the first
anySegment(depth) == TRUE

\* lines 477 / 574: the first secondary path segment determines the hit distance
isFirstSegment(depth) == depth = 1

\* a bounce loop entered whatever the event
entersLoopAlways(absorbed, maxDepth) == loopCondition(1, maxDepth)

\* lines 446 / 543 and the first test of the loop condition
entersLoop(absorbed, maxDepth) == ~absorbed /\ loopCondition(1, maxDepth)

\* lines 482 / 580: breaking on end ray
endOfRay(hitT) == hitT < 0

\* STEP 3.1-3.2 / 4.1-4.2: sample the lobe at the primary surface; unless the
\* sample is absorbed, reset the payload and enter the bounce loop
LobeSample(l) ==
  /\ UNCHANGED hostVars
  /\ pc = AtSample(l)
  /\ \E event \in LobeEvents(scene, l), throughput \in Weights(scene) :
       LET absorbed == event = "absorb" IN
         /\ lobe' = [name |-> l, accum |-> hdrRadiance(l), pathLength |-> 0,
                     throughput |-> IF absorbed THEN 0 ELSE throughput, depth |-> 1,
                     absorbed |-> absorbed, clamped |-> FALSE, hitTs |-> <<>>]
         /\ payload' = IF absorbed THEN payload
                       ELSE [contrib |-> 0, weight |-> 1, hitT |-> NRD_INF, ray |-> 1]
         /\ pc' = IF entersLoop(absorbed, frame.maxDepth) THEN AtLoop(l) ELSE AtWrite(l)
  /\ seg' = NoSeg
  /\ UNCHANGED <<scene, frame, pool, img, rg, pbrMat, cnt, envTerm, comp>>

\* STEP 3.3 / 4.3: one iteration of the bounce loop.  A ray traced a second
\* time from the same origin in the same direction meets the same thing.
LobeTrace(l) ==
  /\ UNCHANGED hostVars
  /\ pc = AtLoop(l)
  /\ \E o \in Segments(scene) :
       /\ (seg.o.shader # "none" /\ seg.ray = payload.ray) => o = seg.o
       /\ LET p == traceIndirect([payload EXCEPT !.hitT = presetHitT(l)], o, lobe.depth + 1)
              break == endOfRay(p.hitT)
          IN /\ payload' = p
             /\ seg' = [ray |-> payload.ray, o |-> o]
             /\ lobe' = [lobe EXCEPT !.accum = @ + p.contrib * lobe.throughput,
                                     !.throughput = @ * p.weight,
                                     !.pathLength = IF isFirstSegment(lobe.depth) THEN abs(p.hitT) ELSE @,
                                     !.depth = IF break THEN @ ELSE @ + 1,
                                     !.hitTs = Append(@, p.hitT)]
             /\ pc' = IF ~break /\ loopCondition(lobe.depth + 1, frame.maxDepth)
                      THEN AtLoop(l) ELSE AtWrite(l)
  /\ cnt' = IF l = "diffuse" THEN [cnt EXCEPT !.diffuse = @ + 1] ELSE [cnt EXCEPT !.specular = @ + 1]
  /\ UNCHANGED <<scene, frame, pool, img, rg, pbrMat, envTerm, comp>>

\* STEP 3.4 / 4.4: the demodulation factor c * 0.99 + 0.01 of a colour or
\* reflectance c, in units of 1/(100 * ColorUnit)
DemodFactor(c) == c * 99 + ColorUnit

\* x / f: a radiance demodulated by the factor f, kept as the quotient
Demodulate(x, f) == [x |-> x, f |-> f]

\* lines 489-493 / 587-591: removing fireflies
removeFireflies(accum) == IF accum > MaxLuminance THEN MaxLuminance ELSE accum

\* STEP 3.5 / 4.5: REBLUR_FrontEnd_GetNormHitDist and
\* REBLUR_FrontEnd_PackRadianceAndNormHitDist, RELAX_FrontEnd_PackRadianceAndHitDist,
\* or the plain vec4(radiance, 1.0)
packRadiance(method, radiance, pathLength) ==
  CASE method = NRD_REBLUR -> [tag |-> "radiance", packing |-> "REBLUR", radiance |-> radiance,
                               w |-> [kind |-> "norm", d |-> pathLength]]
    [] method = NRD_RELAX  -> [tag |-> "radiance", packing |-> "RELAX", radiance |-> radiance,
                               w |-> [kind |-> "raw", d |-> pathLength]]
    [] OTHER               -> [tag |-> "radiance", packing |-> "none", radiance |-> radiance,
                               w |-> [kind |-> "const", d |-> 1]]

\* the arguments of EnvironmentTerm_Rtg in nrd.rgen (lines 599-600)
rgenEnvTermArgs ==
  [Rf0 |-> <<pbrMat.baseColor, pbrMat.metallic>>, NoV |-> max(rg.VdotN, 0), roughness |-> sqrt(pbrMat.roughness)]

\* the lobe's image
lobeImage(l) == IF l = "diffuse" THEN "DiffRadianceHitDist" ELSE "SpecRadianceHitDist"

\* firefly removal (skipped after an absorption), demodulation, packing and
\* the store of the lobe's noisy signal
LobeWrite(l) ==
  /\ UNCHANGED hostVars
  /\ pc = AtWrite(l)
  /\ \E Fenv \in FenvVals(scene) :
       LET accum  == IF lobe.absorbed THEN lobe.accum ELSE removeFireflies(lobe.accum)
           factor == IF l = "diffuse" THEN DemodFactor(pbrMat.baseColor) ELSE DemodFactor(Fenv)
       IN /\ lobe' = [lobe EXCEPT !.accum = accum, !.clamped = accum # lobe.accum]
          /\ envTerm' = IF l = "diffuse" THEN envTerm
                        ELSE [evaluated |-> TRUE, args |-> rgenEnvTermArgs, value |-> Fenv]
          /\ img' = [img EXCEPT ![lobeImage(l)] =
                       packRadiance(frame.method, Demodulate(accum, factor), lobe.pathLength)]
  /\ pc' = IF l = "diffuse" THEN AtSample("specular") ELSE "denoise"
  /\ UNCHANGED <<scene, frame, pool, rg, pbrMat, payload, seg, cnt, comp>>

----------------------------------------------------------------------------
\* The NRD denoisers (NRDWrapper::denoise).  NRD is a library: what a denoiser
\* leaves in an output texel is either the input texel (nothing to blend
\* with) or a blend of other texels and frames.

\* a denoised texel that is not the input texel; the radiance is 1.0
Blended(method) == packRadiance(method, [x |-> 1, f |-> 100 * ColorUnit], 0)

\* one denoiser reading resource inType and writing resource outType
\* through the user pool
denoise(images, textures, inType, outType, method, blend) ==
  [images EXCEPT ![textures[outType]] =
     IF blend \/ images[textures[inType]].tag # "radiance"
     THEN Blended(method) ELSE images[textures[inType]]]

\* every slot of the pool overwritten
setEveryUserPoolTexture(textures, type, texture) == [k \in DOMAIN textures |-> texture]

\* NRDWrapper::setUserPoolTexture
setUserPoolTexture(textures, type, texture) == [textures EXCEPT ![type] = texture]

\* onRender lines 518-546: REBLUR and RELAX denoise both signals in one call
\* and write the validation image; the reference path re-points IN_SIGNAL and
\* OUT_SIGNAL and runs one REFERENCE denoiser per signal
Denoise ==
  /\ UNCHANGED hostVars
  /\ pc = "denoise"
  /\ \E blendDiff \in BOOLEAN, blendSpec \in BOOLEAN :
       IF frame.method \in {NRD_REBLUR, NRD_RELAX}
       THEN LET img1 == denoise(img, pool, "IN_DIFF_RADIANCE_HITDIST", "OUT_DIFF_RADIANCE_HITDIST",
                                frame.method, blendDiff)
                img2 == denoise(img1, pool, "IN_SPEC_RADIANCE_HITDIST", "OUT_SPEC_RADIANCE_HITDIST",
                                frame.method, blendSpec)
            IN /\ img' = [img2 EXCEPT ![pool["OUT_VALIDATION"]] = [tag |-> "validation"]]
               /\ pool' = pool
       ELSE LET pool1 == setUserPoolTexture(
                           setUserPoolTexture(pool, "IN_SIGNAL", "DiffRadianceHitDist"),
                           "OUT_SIGNAL", "OutDiffRadianceHitDist")
                img1  == denoise(img, pool1, "IN_SIGNAL", "OUT_SIGNAL", frame.method, blendDiff)
                pool2 == setUserPoolTexture(
                           setUserPoolTexture(pool1, "IN_SIGNAL", "SpecRadianceHitDist"),
                           "OUT_SIGNAL", "OutSpecRadianceHitDist")
                img2  == denoise(img1, pool2, "IN_SIGNAL", "OUT_SIGNAL", frame.method, blendSpec)
            IN /\ img' = img2
               /\ pool' = pool2
  /\ pc' = "compose"
  /\ UNCHANGED <<scene, frame, rg, pbrMat, payload, lobe, seg, cnt, envTerm, comp>>

----------------------------------------------------------------------------
\* compositing.comp main()

\* REBLUR_BackEnd_UnpackRadianceAndNormHitDist, RELAX_BackEnd_UnpackRadiance or
\* the plain .rgb (lines 140-154); a texel packed otherwise unpacks to a
\* radiance that is not the one packed
unpackRadiance(method, t) ==
  IF t.tag = "radiance"
     /\ (t.packing = "none" \/ t.packing = (CASE method = NRD_REBLUR -> "REBLUR"
                                              [] method = NRD_RELAX -> "RELAX"
                                              [] OTHER -> "none"))
  THEN t.radiance ELSE [x |-> -1, f |-> 1]

\* a compositor that takes every pixel for a surface
isSurfaceAlways(directLighting) == TRUE

\* line 135: directLight.a == 0 denotes "just skybox visible"
isSurface(directLighting) == directLighting.a > 0

\* lines 157-166: V, the normalised vector from the reconstructed world
\* position of the pixel to the eye
viewVector(pixelDir, viewZ) == IF viewZ = 0 THEN <<0, 0>> ELSE neg(pixelDir)

\* line 170: imageLoad(iBaseColor_Metalness); a texel the ray generation
\* shader did not write this frame reads as zeros here
loadBaseColorMetalness(t) == IF t.tag = "baseColorMetalness" THEN t ELSE [rgb |-> 0, w |-> 0]

\* line 177
compositorNoV(N, V) == dot(N, V)

\* the factor without the 0.01
RemodFactorNoBias(c) == c * 99

\* lines 180-181: c * 0.99 + 0.01, in units of 1/(100 * ColorUnit)
RemodFactor(c) == c * 99 + ColorUnit

\* radiance * factor, with the radiance a quotient x / f
Remodulate(radiance, factor) == [x |-> radiance.x, f |-> radiance.f, g |-> factor]

Compose ==
  /\ UNCHANGED hostVars
  /\ pc = "compose"
  /\ LET directLighting == img["DirectLighting"] IN
       IF isSurface(directLighting)
       THEN \E anyFenv \in FenvVals(scene) :
              LET indirectDiff == unpackRadiance(frame.method, img["OutDiffRadianceHitDist"])
                  indirectSpec == unpackRadiance(frame.method, img["OutSpecRadianceHitDist"])
                  V            == viewVector(frame.pixelDir, img["ViewZ"].z)
                  N_roughness  == UnpackNormalAndRoughness(img["NormalRoughness"])
                  baseColorMetalness == loadBaseColorMetalness(img[eGBufLdr])
                  baseColor    == toLinear(loadUnorm8(baseColorMetalness.rgb))
                  metalness    == loadUnorm8(baseColorMetalness.w) \div ColorUnit
                  NoV          == compositorNoV(N_roughness.xyz, V)
                  args         == [Rf0 |-> <<baseColor, metalness>>, NoV |-> NoV, roughness |-> N_roughness.w]
                  Fenv         == IF envTerm.evaluated /\ envTerm.args = args THEN envTerm.value ELSE anyFenv
                  diffDemodulate == RemodFactor(baseColor)
                  specDemodulate == RemodFactor(Fenv)
              IN /\ comp' = [ran |-> TRUE, surface |-> TRUE, args |-> args, Fenv |-> Fenv,
                             baseColor |-> baseColor,
                             diffDemodulate |-> diffDemodulate, specDemodulate |-> specDemodulate]
                 /\ img' = [img EXCEPT !["DenoisedUnpacked"] =
                              [tag |-> "composed", direct |-> directLighting.rgb,
                               diff |-> Remodulate(indirectDiff, diffDemodulate),
                               spec |-> Remodulate(indirectSpec, specDemodulate), a |-> 1]]
       ELSE /\ comp' = [ran |-> TRUE, surface |-> FALSE]
            /\ img' = [img EXCEPT !["DenoisedUnpacked"] =
                         [tag |-> "composed", direct |-> directLighting.rgb,
                          diff |-> [x |-> 0, f |-> 1, g |-> 0], spec |-> [x |-> 0, f |-> 1, g |-> 0],
                          a |-> 1]]
  /\ pc' = "post"
  /\ UNCHANGED <<scene, frame, pool, rg, pbrMat, payload, lobe, seg, cnt, envTerm>>

\* onRender lines 584-593: TAA, the tonemapper (which writes eGBufLdr) and the
\* end of the frame; the shader invocations are over and what the images
\* hold is, for the next frame, what an earlier frame left
FrameEnd ==
  /\ UNCHANGED hostVars
  /\ pc = "post"
  /\ img' = [g \in GbufferNames |-> IF g = eGBufLdr THEN [tag |-> "ldr"] ELSE Stale]
  /\ rg' = NoRgen
  /\ pbrMat' = NoMaterial
  /\ payload' = NoPayload
  /\ lobe' = NoLobe
  /\ seg' = NoSeg
  /\ cnt' = NoCount
  /\ envTerm' = NoEnvTerm
  /\ comp' = NoComp
  /\ scene' = "none"
  /\ frame' = NoFrame
  /\ pc' = "idle"
  /\ UNCHANGED pool

Next == onRenderBegin \/ PsrMiss \/ PsrHit \/ PsrMirror \/ SkyEarlyOut \/ WriteGBuffer \/ DirectLighting
          \/ LobeSample("diffuse") \/ LobeTrace("diffuse") \/ LobeWrite("diffuse")
          \/ LobeSample("specular") \/ LobeTrace("specular") \/ LobeWrite("specular")
          \/ Denoise \/ Compose \/ FrameEnd

Spec == Init /\ [][Next]_vars

----------------------------------------------------------------------------
\* Properties

\* the ray generation shader of the frame is past the PSR loop
PsrLoopLeft == pc \in {"psr_exit", "direct", "diffuse_sample", "diffuse_loop", "diffuse_write",
                       "specular_sample", "specular_loop", "specular_write", "denoise", "compose", "post"}

\* C1: the PSR loop performs at most 5 primary traces.  While it runs, every
\* trace so far hit a mirror; it is left at the first miss, at the first hit
\* on something that is not a mirror (roughness above the threshold or
\* metallic below 1), or after the 5th mirror in a row, and in that last case
\* the pixel goes on as a hit pixel with hitSky false and isPsr true.
C1_PsrLoopBounded ==
  /\ cnt.primary <= PsrMaxDepth
  /\ pc = "psr" => /\ cnt.primary = rg.psrDepth
                   /\ rg.psrDepth < PsrMaxDepth
                   /\ ~rg.hitSky
  /\ pc = "psr_exit" =>
       \/ rg.hitSky /\ cnt.primary = rg.psrDepth + 1
       \/ ~rg.hitSky /\ isNonMirror(pbrMat) /\ cnt.primary = rg.psrDepth + 1
       \/ /\ ~rg.hitSky /\ ~isNonMirror(pbrMat)
          /\ rg.psrDepth = PsrMaxDepth /\ cnt.primary = PsrMaxDepth
          /\ rg.isPsr
          /\ ENABLED WriteGBuffer /\ ~ENABLED SkyEarlyOut
  /\ PsrLoopLeft => cnt.primary >= 1

\* C1 witness: the loop was left after the 5th mirror in a row
C1_Witness == pc = "psr_exit" /\ rg.psrDepth = PsrMaxDepth /\ cnt.primary = PsrMaxDepth /\ ~rg.hitSky

\* C2: a pixel whose primary ray reaches the background, directly or through
\* mirrors, gets a direct-lighting alpha of 0, zero diffuse and specular
\* denoiser inputs and a view depth with the magnitude of the infinity
\* sentinel; no shadow ray and no indirect ray is traced for it and none of
\* the later steps of the shader runs.
C2_SkyPixel ==
  rg.hitSky =>
    /\ pc \in {"psr_exit", "denoise", "compose", "post"}
    /\ cnt.shadow = 0 /\ cnt.diffuse = 0 /\ cnt.specular = 0
    /\ lobe = NoLobe /\ ~envTerm.evaluated
    /\ pc # "psr_exit" =>
         /\ img["DirectLighting"].tag = "direct" /\ img["DirectLighting"].a = 0
         /\ img["DiffRadianceHitDist"] = ZeroRadiance
         /\ img["SpecRadianceHitDist"] = ZeroRadiance
         /\ img["DiffRadianceHitDist"].radiance.x = 0
         /\ img["ViewZ"].tag = "viewZ" /\ abs(img["ViewZ"].z) >= NRD_INF

\* C2 witness: the background was reached after a mirror and the early out
\* has stored its values
C2_Witness == rg.hitSky /\ rg.isPsr /\ pc = "denoise" /\ img["DirectLighting"].rgb > 0

FirstSegmentProxy(hitTs) == IF hitTs = <<>> THEN 0 ELSE abs(hitTs[1])

\* the lobe in the locals has been stored and its locals are still there
LobeWritten ==
  \/ lobe.name = "diffuse" /\ pc = "specular_sample"
  \/ lobe.name = "specular" /\ pc \in {"denoise", "compose", "post"}

\* C4 as claimed: after an indirect miss the bounce loop traces no further
\* ray, so a miss is the last segment of its path and its environment
\* contribution is accumulated once.
C4_MissEndsPath ==
  \A i \in 1..Len(lobe.hitTs) : lobe.hitTs[i] = NRD_INF => i = Len(lobe.hitTs)

\* C4 witness: the first diffuse segment missed, the loop traced the same ray
\* again and the environment radiance 1 was accumulated twice
C4_Witness ==
  /\ lobe.name = "diffuse" /\ pc = "diffuse_write" /\ frame.maxDepth = 3
  /\ lobe.hitTs = <<NRD_INF, NRD_INF>> /\ cnt.diffuse = 2
  /\ seg.o.shader = "rmiss" /\ seg.o.env = 1
  /\ lobe.accum = rg.hdrDiffuseRadiance + 2 * lobe.throughput

\* C5: the hit-distance proxy of a lobe is abs(hitT) of the first indirect
\* segment only, NRD_INF if that segment missed; later bounces leave it, and
\* it is the distance handed to the REBLUR / RELAX packing.
C5_HitDistProxy ==
  lobe.name \in Lobes =>
    /\ lobe.pathLength = FirstSegmentProxy(lobe.hitTs)
    /\ (lobe.hitTs # <<>> /\ lobe.hitTs[1] = NRD_INF) => lobe.pathLength = NRD_INF
    /\ (LobeWritten /\ frame.method # NRD_REFERENCE) =>
         img[lobeImage(lobe.name)].w.d = FirstSegmentProxy(lobe.hitTs)

\* C5 witness: a stored path of two segments of different lengths
C5_Witness ==
  /\ LobeWritten /\ frame.method = NRD_REBLUR /\ Len(lobe.hitTs) >= 2
  /\ abs(lobe.hitTs[2]) # abs(lobe.hitTs[1])
  /\ img[lobeImage(lobe.name)].w.d = abs(lobe.hitTs[1])

\* C6: when the BSDF sample at the primary surface is an absorption, no
\* indirect ray is traced for the lobe, nothing is added to the accumulator
\* (what is written is the accumulator's initial value, demodulated) and the
\* hit-distance proxy is 0.
C6_AbsorbedLobe ==
  (lobe.name \in Lobes /\ lobe.absorbed) =>
    /\ lobe.hitTs = <<>>
    /\ pc # AtLoop(lobe.name)
    /\ lobe.name = "diffuse" => cnt.diffuse = 0
    /\ lobe.name = "specular" => cnt.specular = 0
    /\ lobe.pathLength = 0
    /\ lobe.accum = hdrRadiance(lobe.name)
    /\ LobeWritten =>
         /\ img[lobeImage(lobe.name)].radiance.x = hdrRadiance(lobe.name)
         /\ frame.method # NRD_REFERENCE => img[lobeImage(lobe.name)].w.d = 0

\* C6 witness: an absorbed diffuse sample with bounces to spare, stored
C6_Witness ==
  /\ lobe.name = "diffuse" /\ lobe.absorbed /\ LobeWritten
  /\ frame.maxDepth >= 2 /\ frame.method = NRD_RELAX
  /\ img["DiffRadianceHitDist"].w.d = 0

\* C7: the direct-lighting alpha written by the ray generation shader is 0
\* exactly on the pixels that took the background early out and 1 on the
\* others; the compositor outputs the direct lighting alone exactly on the
\* former and direct + diffuse * diffDemodulate + specular * specDemodulate
\* on the latter.
C7_Compositor ==
  /\ img["DirectLighting"].tag = "direct" =>
       /\ img["DirectLighting"].a \in {0, 1}
       /\ img["DirectLighting"].a = 0 <=> rg.hitSky
  /\ pc = "post" =>
       LET out == img["DenoisedUnpacked"] IN
         /\ comp.surface <=> ~rg.hitSky
         /\ out.direct = img["DirectLighting"].rgb
         /\ rg.hitSky => out.diff.g = 0 /\ out.spec.g = 0 /\ out.direct = rg.psrDirectRadiance
         /\ ~rg.hitSky =>
              /\ out.diff = Remodulate(unpackRadiance(frame.method, img["OutDiffRadianceHitDist"]),
                                       comp.diffDemodulate)
              /\ out.spec = Remodulate(unpackRadiance(frame.method, img["OutSpecRadianceHitDist"]),
                                       comp.specDemodulate)

\* C7 witness: a composed background pixel that shows the environment
C7_Witness == pc = "post" /\ rg.hitSky /\ ~comp.surface /\ img["DenoisedUnpacked"].direct > 0

\* C8: demodulation divides by f = c * 0.99 + 0.01 and the compositor
\* multiplies by the same affine form; f is never 0, and when the compositor
\* has the colour (environment term) of the ray generation shader and the
\* denoiser hands the texel through, (x / f) * f is x.
C8_RoundTrip ==
  /\ LobeWritten =>
       LET t == img[lobeImage(lobe.name)] IN
         /\ t.radiance.f > 0
         /\ t.radiance = Demodulate(lobe.accum,
                           DemodFactor(IF lobe.name = "diffuse" THEN pbrMat.baseColor ELSE envTerm.value))
  /\ (pc = "post" /\ comp.surface) =>
       LET out == img["DenoisedUnpacked"] IN
         /\ comp.diffDemodulate > 0 /\ comp.specDemodulate > 0
         /\ (img["OutDiffRadianceHitDist"] = img["DiffRadianceHitDist"] /\ comp.baseColor = pbrMat.baseColor)
              => out.diff.x * out.diff.g = img["DiffRadianceHitDist"].radiance.x * out.diff.f
         /\ (img["OutSpecRadianceHitDist"] = img["SpecRadianceHitDist"] /\ comp.Fenv = envTerm.value)
              => out.spec.x * out.spec.g = lobe.accum * out.spec.f

\* C8 witness: both signals go through the denoiser untouched, the specular
\* one with the smallest factor (environment term 0) and a radiance above 0
C8_Witness ==
  /\ pc = "post" /\ comp.surface
  /\ img["OutDiffRadianceHitDist"] = img["DiffRadianceHitDist"] /\ comp.baseColor = pbrMat.baseColor
  /\ img["OutSpecRadianceHitDist"] = img["SpecRadianceHitDist"] /\ comp.Fenv = envTerm.value
  /\ envTerm.value = 0 /\ lobe.accum > 0 /\ img["DiffRadianceHitDist"].radiance.x > 0

\* C9 as claimed: on a hit pixel the compositor evaluates both factors from
\* the inputs the ray generation shader used: the same base colour, and the
\* same arguments of the environment term (metalness, roughness, N.V).
C9_SameFactors ==
  (pc = "post" /\ comp.surface) =>
    /\ comp.baseColor = pbrMat.baseColor
    /\ comp.args = envTerm.args
    /\ comp.diffDemodulate = DemodFactor(pbrMat.baseColor)
    /\ comp.specDemodulate = DemodFactor(envTerm.value)

\* C9 witness: the normal faces away from the view vector; the ray generation
\* shader clamped N.V to 0, the compositor did not, and the two environment
\* terms differ although base colour, metalness and roughness agree
C9_Witness ==
  /\ pc = "post" /\ comp.surface /\ rg.VdotN < 0
  /\ envTerm.args.NoV = 0 /\ comp.args.NoV = rg.VdotN
  /\ comp.args.Rf0 = envTerm.args.Rf0 /\ comp.args.roughness = envTerm.args.roughness
  /\ comp.specDemodulate # DemodFactor(envTerm.value)

\* C10 as claimed: the environment sample of the primary surface is part of
\* the direct-lighting term (with the light contributions and the emission
\* terms) and of no noisy signal; the direct-lighting buffer is in no slot
\* of the NRD user pool and the compositor adds it as stored.
C10_EnvSampleInDirect ==
  /\ \A r \in DOMAIN pool : pool[r] # "DirectLighting"
  /\ (img["DirectLighting"].tag = "direct" /\ img["DirectLighting"].a = 1) =>
       img["DirectLighting"].rgb = DirectLight + rg.psrDirectRadiance + pbrMat.emissive
                                     + rg.hdrDiffuseRadiance + rg.hdrSpecularRadiance
  /\ (lobe.name \in Lobes /\ lobe.hitTs = <<>>) => lobe.accum = 0
  /\ pc = "post" => img["DenoisedUnpacked"].direct = img["DirectLighting"].rgb

\* C10: the direct-lighting buffer of a hit pixel holds the light
\* contributions and the emission terms of line 424 and not the environment
\* sample; the buffer is in no slot of the NRD user pool and the compositor
\* adds it as stored.  The environment sample is the initial value of the
\* diffuse and of the specular accumulator and so goes into the noisy
\* denoiser inputs.
C10_EnvSampleInNoisyInputs ==
  /\ \A r \in DOMAIN pool : pool[r] # "DirectLighting"
  /\ (img["DirectLighting"].tag = "direct" /\ img["DirectLighting"].a = 1) =>
       img["DirectLighting"].rgb = DirectLight + rg.psrDirectRadiance + pbrMat.emissive
  /\ (lobe.name \in Lobes /\ lobe.hitTs = <<>>) =>
       LET envSample == IF lobe.name = "diffuse" THEN rg.hdrDiffuseRadiance
                        ELSE rg.hdrSpecularRadiance
       IN /\ lobe.accum = envSample
          /\ LobeWritten => img[lobeImage(lobe.name)].radiance.x = envSample
  /\ pc = "post" => img["DenoisedUnpacked"].direct = img["DirectLighting"].rgb

\* C10 witness: a composed hit pixel whose specular input is the environment
\* sample alone
C10_Witness ==
  /\ pc = "post" /\ comp.surface /\ lobe.name = "specular" /\ lobe.hitTs = <<>>
  /\ rg.hdrSpecularRadiance = 1 /\ img["SpecRadianceHitDist"].radiance.x = 1
  /\ img["DirectLighting"].rgb = 0

----------------------------------------------------------------------------
\* The host side: the NRD library as the wrapper sees it, the NRDWrapper
\* class and NRDEngine::onResize / onRender / onDetach.  What the handlers
\* record into a command buffer is kept as a sequence of commands; what they
\* do with the device at once (create, destroy, wait, submit) is kept in
\* device.calls for the handler that ran last.

\* Bounds of the exploration

\* largest register space index the library reports
MaxSpaceIndex == 3
\* longest dispatch list nrd::GetComputeDispatches returns to one onRender
MaxDispatches == 2
\* G-buffer sets created after the one of onAttach
MaxResizes == 2
\* largest m_frame from which a frame is still rendered
MaxFrame == 1

\* nrd::ResourceType: the user resources the engine fills and the two pools
ResourceTypes == (DOMAIN userTexturePool) \cup {"TRANSIENT_POOL", "PERMANENT_POOL"}

\* nrd::DescriptorType
DescriptorTypes == {"TEXTURE", "STORAGE_TEXTURE"}

\* a default-constructed nvvk::Texture
NullTexture == [kind |-> "null"]

\* the pipelines of the instance: a pass with two sampled inputs, one storage
\* output and constants, and a pass with one input and one output
PipelinesAt(textureBase, storageBase) ==
  << [resourceRanges |-> << [descriptorType |-> "TEXTURE", descriptorsNum |-> 2,
                             baseRegisterIndex |-> textureBase],
                            [descriptorType |-> "STORAGE_TEXTURE", descriptorsNum |-> 1,
                             baseRegisterIndex |-> storageBase] >>,
      hasConstantData |-> TRUE],
     [resourceRanges |-> << [descriptorType |-> "TEXTURE", descriptorsNum |-> 1,
                             baseRegisterIndex |-> textureBase],
                            [descriptorType |-> "STORAGE_TEXTURE", descriptorsNum |-> 1,
                             baseRegisterIndex |-> storageBase] >>,
      hasConstantData |-> FALSE] >>

\* the pipelines as NRD reports them, every range starting at register 0
Pipelines == PipelinesAt(0, 0)

\* lDesc.spirvBindingOffsets: the binding number at which each category of
\* descriptors starts, as the library was compiled
SpirvBindingOffsets ==
  { [constantBufferOffset |-> 0, samplerOffset |-> 4, textureOffset |-> 8,
     storageTextureAndBufferOffset |-> 16],
    [constantBufferOffset |-> 9, samplerOffset |-> 0, textureOffset |-> 3,
     storageTextureAndBufferOffset |-> 6] }

\* nrd::GetInstanceDesc for the register spaces the library was built with
InstanceDesc(spaces) ==
  [constantBufferSpaceIndex |-> spaces[1], samplersSpaceIndex |-> spaces[2],
   resourcesSpaceIndex |-> spaces[3], pipelines |-> Pipelines,
   permanentPool |-> <<[downsampleFactor |-> 1], [downsampleFactor |-> 2]>>, permanentPoolSize |-> 2,
   transientPool |-> <<[downsampleFactor |-> 1]>>, transientPoolSize |-> 1, samplersNum |-> 2,
   samplersBaseRegisterIndex |-> 0,
   spirvBindingOffsets |-> CHOOSE o \in SpirvBindingOffsets : o.constantBufferOffset = 0]

\* what the library reports when its registers start at other indices and
\* its bindings at other offsets
InstanceDescAt(spaces, textureBase, storageBase, samplersBase, offsets) ==
  [InstanceDesc(spaces) EXCEPT !.pipelines = PipelinesAt(textureBase, storageBase),
                               !.samplersBaseRegisterIndex = samplersBase,
                               !.spirvBindingOffsets = offsets]

\* the register spaces of the library the engine is run with: NRD puts the
\* three categories into one set
LibrarySpaces == {<<0, 0, 0>>}

\* the register indices a range or the samplers start at
RegisterIndices == {0, 1}

\* every report of register spaces
AllSpaces == (0..MaxSpaceIndex) \X (0..MaxSpaceIndex) \X (0..MaxSpaceIndex)

----------------------------------------------------------------------------
\* NRDWrapper::createPipelines

\* line 363
samplersSetIndex(d) ==
  IF d.constantBufferSpaceIndex = d.samplersSpaceIndex THEN 0 ELSE 0 + 1

\* a resources set that follows the samplers set in every case
resourcesSetIndexOwnSet(d, m_samplersSetIndex) == m_samplersSetIndex + 1

\* lines 365-368
resourcesSetIndex(d, m_samplersSetIndex) ==
  IF d.resourcesSpaceIndex = d.constantBufferSpaceIndex
  THEN 0
  ELSE IF d.resourcesSpaceIndex = d.samplersSpaceIndex
       THEN m_samplersSetIndex ELSE m_samplersSetIndex + 1

\* number of descriptors of a pipeline (lines 377-381)
RECURSIVE numResources(_)
numResources(ranges) ==
  IF ranges = <<>> THEN 0 ELSE Head(ranges).descriptorsNum + numResources(Tail(ranges))

\* a Vulkan or NRD object made by wrapper number owner
handle(kind, owner, index) == [kind |-> kind, owner |-> owner, index |-> index]

\* a binding number: an offset of the library and an index added to it
bindingAt(base, index) == [base |-> base, index |-> index]

\* the bindings declared for the resource ranges (lines 460-485)
RECURSIVE resourceBindings(_)
resourceBindings(ranges) ==
  IF ranges = <<>> THEN <<>>
  ELSE LET range == Head(ranges)
       IN [i \in 1..range.descriptorsNum |->
             IF range.descriptorType = "TEXTURE"
             THEN [binding |-> bindingAt("textureOffset", range.baseRegisterIndex + (i - 1)),
                   descriptorType |-> "VK_DESCRIPTOR_TYPE_SAMPLED_IMAGE"]
             ELSE [binding |-> bindingAt("storageTextureAndBufferOffset",
                                         range.baseRegisterIndex + (i - 1)),
                   descriptorType |-> "VK_DESCRIPTOR_TYPE_STORAGE_IMAGE"]]
          \o resourceBindings(Tail(ranges))

\* the bindings of set number set of a pipeline (lines 410-485).  The sampler
\* bindings (lines 412 and 421) and the constant buffer (lines 437 and 445)
\* are put in the set m_constantBufferSetIndex, which is 0; the resources in
\* the set m_resourcesSetIndex
setBindings(d, pDesc, smp, res, set) ==
  (IF set = 0
   THEN [i \in 1..d.samplersNum |->
           [binding |-> bindingAt("samplerOffset", i - 1),
            descriptorType |-> "VK_DESCRIPTOR_TYPE_SAMPLER"]]
   ELSE <<>>)
  \o (IF set = 0 /\ pDesc.hasConstantData
      THEN << [binding |-> bindingAt("constantBufferOffset", 0),
               descriptorType |-> "VK_DESCRIPTOR_TYPE_UNIFORM_BUFFER"] >>
      ELSE <<>>)
  \o (IF set = res THEN resourceBindings(pDesc.resourceRanges) ELSE <<>>)

\* lines 348-525: the set indices, and per pipeline the set layouts (one per
\* set, line 494) with their bindings, the pipeline layout and the pipeline
createPipelines(w, d) ==
  LET smp == samplersSetIndex(d)
      res == resourcesSetIndex(d, smp)
      numPipelineSets == max(smp, res) + 1
  IN [w EXCEPT
        !.m_constantBufferSetIndex = 0,
        !.m_samplersSetIndex = smp,
        !.m_resourcesSetIndex = res,
        !.m_pipelines =
           [p \in 1..Len(d.pipelines) |->
              [pipeline |-> handle("pipeline", w.id, p),
               pipelineLayout |-> handle("pipelineLayout", w.id, p),
               descriptorLayouts |->
                 [l \in 1..numPipelineSets |-> handle("setLayout", w.id, <<p, l>>)],
               setBindings |->
                 [l \in 1..numPipelineSets |-> setBindings(d, d.pipelines[p], smp, res, l - 1)],
               numBindings |-> d.samplersNum + (IF d.pipelines[p].hasConstantData THEN 1 ELSE 0)
                                 + numResources(d.pipelines[p].resourceRanges)]]]

\* the members of an NRDWrapper before its constructor body runs
\* (NRDWrapper.hpp lines 98-117)
newWrapper(id) ==
  [alive |-> TRUE, id |-> id, m_instance |-> NullTexture, m_permanentTextures |-> <<>>,
   m_transientTextures |-> <<>>, m_userTexturePool |-> [r \in ResourceTypes |-> NullTexture],
   m_samplers |-> <<>>, m_constantBuffer |-> NullTexture, m_pipelines |-> <<>>,
   m_constantBufferSetIndex |-> 0, m_samplersSetIndex |-> 0, m_resourcesSetIndex |-> 0]

----------------------------------------------------------------------------
\* The device

\* commands of a command buffer take effect in order: a layout transition
\* out of UNDEFINED keeps no contents, a clear needs the image in the layout
\* it names, a compute dispatch writes the images bound to it for writing
RECURSIVE execute(_, _)
execute(dev, commands) ==
  IF commands = <<>> THEN dev
  ELSE LET c == Head(commands)
           next ==
             CASE c.op = "layoutBarrier" ->
                    [dev EXCEPT !.layout[c.image] = c.newLayout]
               [] c.op = "clear" ->
                    [dev EXCEPT !.content[c.image] =
                       IF dev.layout[c.image] = c.layout THEN "zero" ELSE "undefined"]
               [] c.op = "vkCmdDispatch" ->
                    [dev EXCEPT !.content =
                       [t \in DOMAIN @ |-> IF t \in c.writes THEN "written" ELSE @[t]]]
               [] OTHER -> dev
       IN execute(next, Tail(commands))

\* vkDeviceWaitIdle: everything submitted has finished when it returns
vkDeviceWaitIdle(dev) ==
  [execute(dev, dev.pending) EXCEPT !.pending = <<>>, !.calls = @ \o <<[call |-> "vkDeviceWaitIdle"]>>]

\* a submission nobody waits for
submitOnly(dev, commands) ==
  [dev EXCEPT !.pending = @ \o commands, !.calls = @ \o <<[call |-> "submit"]>>]

\* nvvk::CommandPool::submitAndWait (line 224)
submitAndWait(dev, commands) ==
  [execute(dev, dev.pending \o commands) EXCEPT
     !.pending = <<>>, !.calls = @ \o <<[call |-> "submitAndWait"]>>]

\* creation and destruction of objects
create(dev, objects) == [dev EXCEPT !.live = @ \cup objects]

destroy(dev, call, object) ==
  [dev EXCEPT !.live = @ \ {object},
              !.layout = [t \in (DOMAIN @) \ {object} |-> @[t]],
              !.content = [t \in (DOMAIN @) \ {object} |-> @[t]],
              !.extent = [t \in (DOMAIN @) \ {object} |-> @[t]],
              !.calls = @ \o <<[call |-> call, object |-> object]>>]

RECURSIVE destroyAll(_, _, _)
destroyAll(dev, call, objects) ==
  IF objects = <<>> THEN dev
  ELSE destroyAll(destroy(dev, call, Head(objects)), call, Tail(objects))

----------------------------------------------------------------------------
\* NRDWrapper::NRDWrapper and NRDWrapper::~NRDWrapper

\* DivideRoundUp (lines 135-138), a uint16_t
DivideRoundUp(dividend, divisor) == ((dividend + divisor - 1) \div divisor) % 65536

\* NRDWrapper::createTexture (lines 325-339): an image that is in no layout
\* and holds garbage
createTexture(dev, texture, tDesc, width) ==
  [dev EXCEPT !.live = @ \cup {texture},
              !.layout = @ @@ [t \in {texture} |-> "UNDEFINED"],
              !.content = @ @@ [t \in {texture} |-> "undefined"],
              !.extent = @ @@ [t \in {texture} |-> DivideRoundUp(width, tDesc.downsampleFactor)]]

\* the loops of lines 167-176 and 182-191
RECURSIVE createTextures(_, _, _, _)
createTextures(dev, textures, tDescs, width) ==
  IF textures = <<>> THEN dev
  ELSE createTextures(createTexture(dev, Head(textures), Head(tDescs), width),
                      Tail(textures), Tail(tDescs), width)

\* the lambda transitionTexture (lines 206-213)
transitionTexture(image) ==
  << [op |-> "layoutBarrier", image |-> image, oldLayout |-> "UNDEFINED", newLayout |-> "GENERAL"],
     [op |-> "clear", image |-> image, layout |-> "GENERAL", value |-> 0] >>

\* the two loops of lines 215-222
RECURSIVE transitionTextures(_)
transitionTextures(textures) ==
  IF textures = <<>> THEN <<>>
  ELSE transitionTexture(Head(textures)) \o transitionTextures(Tail(textures))

\* the constructor: the wrapper it leaves and the device after it
NRDWrapper(dev, id, d, width, userPool) ==
  LET permanent == [t \in 1..d.permanentPoolSize |-> handle("permanent", id, t)]
      transient == [t \in 1..d.transientPoolSize |-> handle("transient", id, t)]
      samplers  == [t \in 1..d.samplersNum |-> handle("sampler", id, t)]
      w1 == [newWrapper(id) EXCEPT
               !.m_instance = handle("instance", id, 0),
               !.m_permanentTextures = permanent,
               !.m_transientTextures = transient,
               !.m_userTexturePool = [t \in ResourceTypes |-> userPool[t]],
               !.m_samplers = samplers,
               !.m_constantBuffer = handle("constantBuffer", id, 0)]
      w2 == createPipelines(w1, d)
      dev1 == create(dev, {w1.m_instance})
      dev2 == createTextures(createTextures(dev1, permanent, d.permanentPool, width),
                             transient, d.transientPool, width)
      dev3 == submitAndWait(dev2, transitionTextures(transient) \o transitionTextures(permanent))
      dev4 == create(dev3, {samplers[t] : t \in DOMAIN samplers} \cup {w1.m_constantBuffer})
      dev5 == create(dev4, UNION {{w2.m_pipelines[p].pipeline, w2.m_pipelines[p].pipelineLayout}
                                    \cup {w2.m_pipelines[p].descriptorLayouts[l] :
                                            l \in DOMAIN w2.m_pipelines[p].descriptorLayouts} :
                                  p \in DOMAIN w2.m_pipelines})
  IN [wrapper |-> w2, device |-> dev5]

\* lines 263-271
RECURSIVE destroyPipelines(_, _)
destroyPipelines(dev, pipelines) ==
  IF pipelines = <<>> THEN dev
  ELSE LET p == Head(pipelines)
           dev1 == destroy(dev, "vkDestroyPipeline", p.pipeline)
           dev2 == destroy(dev1, "vkDestroyPipelineLayout", p.pipelineLayout)
           dev3 == destroyAll(dev2, "vkDestroyDescriptorSetLayout", p.descriptorLayouts)
       IN destroyPipelines(dev3, Tail(pipelines))

\* a destructor that also destroys the textures of the user pool
texturesWithUserPool(w) ==
  w.m_transientTextures \o w.m_permanentTextures \o <<w.m_userTexturePool["IN_VIEWZ"]>>

\* the textures the destructor destroys (lines 255-262)
texturesDestroyed(w) == w.m_transientTextures \o w.m_permanentTextures

\* the destructor (lines 246-274)
destructor(dev, w) ==
  LET dev1 == vkDeviceWaitIdle(dev)
      dev2 == destroy(dev1, "destroy", w.m_constantBuffer)
      dev3 == destroyAll(dev2, "releaseSampler", w.m_samplers)
      dev4 == destroyAll(dev3, "destroy", texturesDestroyed(w))
      dev5 == destroyPipelines(dev4, w.m_pipelines)
  IN destroy(dev5, "nrd::DestroyInstance", w.m_instance)

----------------------------------------------------------------------------
\* What nrd::GetComputeDispatches returns

\* nrd::ResourceDesc
resourceDesc(type, indexInPool, descriptorType) ==
  [type |-> type, indexInPool |-> indexInPool, descriptorType |-> descriptorType]

\* the passes a dispatch list is made of: pipeline, resources, grid and the
\* values the constant-data flag takes.  One of them names a resource under
\* another kind than the pipeline declares
Passes ==
  { [pipelineIndex |-> 0, gridWidth |-> 4, same |-> {FALSE},
     resources |-> << resourceDesc("IN_DIFF_RADIANCE_HITDIST", 0, "TEXTURE"),
                      resourceDesc("PERMANENT_POOL", 1, "TEXTURE"),
                      resourceDesc("TRANSIENT_POOL", 0, "STORAGE_TEXTURE") >>],
    [pipelineIndex |-> 0, gridWidth |-> 2, same |-> {TRUE},
     resources |-> << resourceDesc("IN_NORMAL_ROUGHNESS", 0, "TEXTURE"),
                      resourceDesc("TRANSIENT_POOL", 0, "TEXTURE"),
                      resourceDesc("PERMANENT_POOL", 0, "STORAGE_TEXTURE") >>],
    [pipelineIndex |-> 0, gridWidth |-> 1, same |-> {FALSE},
     resources |-> << resourceDesc("IN_VIEWZ", 0, "TEXTURE"),
                      resourceDesc("TRANSIENT_POOL", 0, "STORAGE_TEXTURE"),
                      resourceDesc("PERMANENT_POOL", 1, "STORAGE_TEXTURE") >>],
    [pipelineIndex |-> 1, gridWidth |-> 4, same |-> {FALSE},
     resources |-> << resourceDesc("TRANSIENT_POOL", 0, "TEXTURE"),
                      resourceDesc("OUT_DIFF_RADIANCE_HITDIST", 0, "STORAGE_TEXTURE") >>],
    [pipelineIndex |-> 1, gridWidth |-> 2, same |-> {TRUE},
     resources |-> << resourceDesc("IN_SIGNAL", 0, "TEXTURE"),
                      resourceDesc("OUT_SIGNAL", 0, "STORAGE_TEXTURE") >>] }

\* nrd::DispatchDesc
DispatchDescs ==
  UNION { { [pipelineIndex |-> x.pipelineIndex, resources |-> x.resources, gridWidth |-> x.gridWidth,
             gridHeight |-> 1, constantBufferDataMatchesPreviousDispatch |-> same] :
              same \in x.same } : x \in Passes }

\* the dispatch lists of at most n dispatches
DispatchLists(n) == UNION {[1..k -> DispatchDescs] : k \in 0..n}

----------------------------------------------------------------------------
\* NRDWrapper::dispatch and NRDWrapper::denoise

\* the descriptors of a pipeline in binding order: for each the kind of its
\* range and its place d in the range (the loops of lines 583 and 590)
RECURSIVE rangeSlots(_)
rangeSlots(ranges) ==
  IF ranges = <<>> THEN <<>>
  ELSE [i \in 1..Head(ranges).descriptorsNum |->
          [descriptorType |-> Head(ranges).descriptorType, d |-> i - 1]]
       \o rangeSlots(Tail(ranges))

\* NRDDescriptorTypeToVulkan (lines 116-123)
NRDDescriptorTypeToVulkan(type) ==
  IF type = "TEXTURE" THEN "VK_DESCRIPTOR_TYPE_SAMPLED_IMAGE" ELSE "VK_DESCRIPTOR_TYPE_STORAGE_IMAGE"

\* lines 602-614
poolTexture(w, nrdResource) ==
  IF nrdResource.type = "TRANSIENT_POOL"
  THEN w.m_transientTextures[nrdResource.indexInPool + 1]
  ELSE IF nrdResource.type = "PERMANENT_POOL"
       THEN w.m_permanentTextures[nrdResource.indexInPool + 1]
       ELSE w.m_userTexturePool[nrdResource.type]

\* nvvk::makeImageMemoryBarrier
makeImageMemoryBarrier(image, srcAccess, dstAccess, oldLayout, newLayout) ==
  [image |-> image, srcAccess |-> srcAccess, dstAccess |-> dstAccess,
   oldLayout |-> oldLayout, newLayout |-> newLayout]

\* the lambdas of lines 566-575
transitionToShaderRead(image) ==
  makeImageMemoryBarrier(image, "SHADER_WRITE", "SHADER_READ", "GENERAL", "GENERAL")

transitionToShaderWrite(image) ==
  makeImageMemoryBarrier(image, "SHADER_READ", "SHADER_WRITE", "GENERAL", "GENERAL")

\* every image made ready for reading
imageBarrierToRead(isStorage, image) == transitionToShaderRead(image)

\* line 622
imageBarrier(isStorage, image) ==
  IF isStorage THEN transitionToShaderWrite(image) ELSE transitionToShaderRead(image)

\* an upload for every dispatch of a pipeline with constants
uploadsAlways(pDesc, dispatchDesc) == pDesc.hasConstantData

\* lines 651 and 661
uploadsConstants(pDesc, dispatchDesc) ==
  pDesc.hasConstantData /\ ~dispatchDesc.constantBufferDataMatchesPreviousDispatch

\* lines 664-692
constantBufferUpload(w, dispatchDesc) ==
  << [op |-> "vkCmdPipelineBarrier", srcStage |-> "COMPUTE_SHADER", dstStage |-> "TRANSFER",
      imageBarriers |-> <<>>,
      bufferBarriers |-> << [buffer |-> w.m_constantBuffer, srcAccess |-> "SHADER_READ",
                             dstAccess |-> "TRANSFER_WRITE"] >>],
     [op |-> "vkCmdUpdateBuffer", buffer |-> w.m_constantBuffer],
     [op |-> "vkCmdPipelineBarrier", srcStage |-> "TRANSFER", dstStage |-> "COMPUTE_SHADER",
      imageBarriers |-> <<>>,
      bufferBarriers |-> << [buffer |-> w.m_constantBuffer, srcAccess |-> "TRANSFER_WRITE",
                             dstAccess |-> "SHADER_READ"] >>] >>

\* a command buffer: what was recorded, and whether an assert stopped the
\* program while recording
commandBuffer(commands, aborted) == [commands |-> commands, aborted |-> aborted]

\* NRDWrapper::dispatch (lines 546-709).  assert() ends the program unless the
\* build defines NDEBUG.  The vkCmdDispatch command is noted with the images
\* its descriptors give it for reading and for writing and with the buffer
\* its pipeline reads.
dispatch(w, d, ndebug, cb, dispatchDesc) ==
  LET pDesc    == d.pipelines[dispatchDesc.pipelineIndex + 1]
      pipeline == w.m_pipelines[dispatchDesc.pipelineIndex + 1]
      slots    == rangeSlots(pDesc.resourceRanges)
      oneSet   == w.m_constantBufferSetIndex = w.m_resourcesSetIndex
                    /\ w.m_samplersSetIndex = w.m_resourcesSetIndex
      sameKind == \A n \in DOMAIN slots :
                    dispatchDesc.resources[n].descriptorType = slots[n].descriptorType
      isStorage(n) == slots[n].descriptorType = "STORAGE_TEXTURE"
      updates  == [n \in DOMAIN slots |->
                     [dstBinding |-> bindingAt(IF isStorage(n) THEN "storageTextureAndBufferOffset"
                                                            ELSE "textureOffset", slots[n].d),
                      descriptorType |-> NRDDescriptorTypeToVulkan(dispatchDesc.resources[n].descriptorType),
                      imageView |-> poolTexture(w, dispatchDesc.resources[n]),
                      imageLayout |-> "GENERAL"]]
      imageBarriers == [n \in DOMAIN slots |->
                          imageBarrier(isStorage(n), poolTexture(w, dispatchDesc.resources[n]))]
      bound(type) == {updates[n].imageView : n \in {k \in DOMAIN updates : updates[k].descriptorType = type}}
  IN IF ~ndebug /\ ~(oneSet /\ sameKind)
     THEN commandBuffer(cb.commands, TRUE)
     ELSE commandBuffer(
            cb.commands
              \o (IF uploadsConstants(pDesc, dispatchDesc)
                  THEN constantBufferUpload(w, dispatchDesc) ELSE <<>>)
              \o << [op |-> "vkCmdPipelineBarrier", srcStage |-> "COMPUTE_SHADER",
                     dstStage |-> "COMPUTE_SHADER", bufferBarriers |-> <<>>,
                     imageBarriers |-> imageBarriers],
                    [op |-> "vkCmdPushDescriptorSetKHR", layout |-> pipeline.pipelineLayout,
                     set |-> w.m_resourcesSetIndex, updates |-> updates,
                     samplerUpdates |->
                       [i \in 1..d.samplersNum |->
                          [dstBinding |-> bindingAt("samplerOffset",
                                                    d.samplersBaseRegisterIndex + (i - 1)),
                           descriptorType |-> "VK_DESCRIPTOR_TYPE_SAMPLER"]],
                     constantBufferUpdate |->
                       IF pDesc.hasConstantData
                       THEN << [dstBinding |-> bindingAt("constantBufferOffset", 0),
                                descriptorType |-> "VK_DESCRIPTOR_TYPE_UNIFORM_BUFFER"] >>
                       ELSE <<>>,
                     constantBuffer |-> pDesc.hasConstantData],
                    [op |-> "vkCmdBindPipeline", pipeline |-> pipeline.pipeline],
                    [op |-> "vkCmdDispatch", pass |-> "denoise", stage |-> "COMPUTE_SHADER",
                     x |-> dispatchDesc.gridWidth, y |-> dispatchDesc.gridHeight,
                     reads |-> bound("VK_DESCRIPTOR_TYPE_SAMPLED_IMAGE"),
                     writes |-> bound("VK_DESCRIPTOR_TYPE_STORAGE_IMAGE"),
                     readsBuffer |-> pDesc.hasConstantData] >>,
            FALSE)

\* only the first dispatch of the list
dispatchFirst(w, d, ndebug, cb, dispatchDescs) ==
  IF dispatchDescs = <<>> \/ cb.aborted THEN cb
  ELSE dispatch(w, d, ndebug, cb, Head(dispatchDescs))

\* the loop of NRDWrapper::denoise (lines 534-541) over the list that
\* nrd::GetComputeDispatches returned
RECURSIVE dispatchAll(_, _, _, _, _)
dispatchAll(w, d, ndebug, cb, dispatchDescs) ==
  IF dispatchDescs = <<>> \/ cb.aborted THEN cb
  ELSE dispatchAll(w, d, ndebug, dispatch(w, d, ndebug, cb, Head(dispatchDescs)), Tail(dispatchDescs))

----------------------------------------------------------------------------
\* NRDEngine

\* viewport sizes
Sizes == {4, 7}

\* onResize line 211 / onRender line 536: the nvvk::Texture of a G-buffer image
poolTextureFromGBufTexture(set, gbufIndex) == [kind |-> "gbuffer", set |-> set, name |-> gbufIndex]

\* the images of a G-buffer set
gbufferImages(set) == {poolTextureFromGBufTexture(set, g) : g \in GbufferNames}

\* createGbuffers (lines 628-673): the old set is destroyed, a new one is made
createGbuffers(dev, oldSet, set, size) ==
  [dev EXCEPT !.live = (@ \ gbufferImages(oldSet)) \cup gbufferImages(set),
              !.extent = [t \in ((DOMAIN @) \ gbufferImages(oldSet)) \cup gbufferImages(set) |->
                            IF t \in gbufferImages(set) THEN size ELSE @[t]],
              !.calls = @ \o <<[call |-> "createGbuffers", set |-> set]>>]

\* a pool filled from the G-buffer set that the resize has destroyed
previousUserTexturePool(set) ==
  [r \in ResourceTypes |->
     IF r \in DOMAIN userTexturePool
     THEN poolTextureFromGBufTexture(set - 1, userTexturePool[r]) ELSE NullTexture]

\* the array onResize fills (lines 208-226)
engineUserTexturePool(set) ==
  [r \in ResourceTypes |->
     IF r \in DOMAIN userTexturePool
     THEN poolTextureFromGBufTexture(set, userTexturePool[r]) ELSE NullTexture]

\* the state after onAttach: the G-buffers exist, the wrapper does not
HostInit ==
  /\ PixelInit
  /\ EngineInit
  /\ host = "attached"
  /\ NDEBUG \in BOOLEAN
  /\ iDesc \in {InstanceDesc(spaces) : spaces \in LibrarySpaces}
  /\ m_gBuffers = 1
  /\ m_viewSize = 1
  /\ m_frame = 0
  /\ m_nrd = NoWrapper
  /\ device = createGbuffers(NoDevice, 0, 1, 1)
  /\ cmd = <<>>
  /\ nrdLists = <<>>

\* onResize (lines 198-230).  m_nrd.reset(new NRDWrapper(...)) constructs the
\* new wrapper and then destroys the old one.  No frame is being recorded.
onResize ==
  /\ host \in {"attached", "running"}
  /\ m_gBuffers <= MaxResizes
  /\ \E width \in Sizes :
       LET set  == m_gBuffers + 1
           dev0 == [device EXCEPT !.calls = <<[call |-> "onResize", width |-> width]>>]
           dev1 == createGbuffers(vkDeviceWaitIdle(dev0), m_gBuffers, set, width)
           made == NRDWrapper(dev1, set, iDesc, width, engineUserTexturePool(set))
       IN /\ m_gBuffers' = set
          /\ m_viewSize' = width
          /\ m_nrd' = made.wrapper
          /\ device' = IF m_nrd.alive THEN destructor(made.device, m_nrd) ELSE made.device
  /\ m_frame' = 0
  /\ host' = "running"
  /\ cmd' = <<>>
  /\ nrdLists' = <<>>
  /\ UNCHANGED <<NDEBUG, iDesc>>
  /\ UNCHANGED pixelVars
  /\ UNCHANGED engineVars

\* onDetach (lines 192-196) with destroyResources (lines 1094-1116)
onDetach ==
  /\ host \in {"attached", "running"}
  /\ LET dev0 == [device EXCEPT !.calls = <<[call |-> "onDetach"]>>]
         dev1 == vkDeviceWaitIdle(dev0)
         dev2 == IF m_nrd.alive THEN destructor(dev1, m_nrd) ELSE dev1
     IN device' = [dev2 EXCEPT !.live = @ \ gbufferImages(m_gBuffers),
                               !.extent = [t \in (DOMAIN @) \ gbufferImages(m_gBuffers) |-> @[t]]]
  /\ m_nrd' = NoWrapper
  /\ host' = "detached"
  /\ cmd' = <<>>
  /\ nrdLists' = <<>>
  /\ UNCHANGED <<NDEBUG, iDesc, m_gBuffers, m_viewSize, m_frame>>
  /\ UNCHANGED pixelVars
  /\ UNCHANGED engineVars

\* a pipeline, layout or buffer that is a member of the NRDEngine
engineObject(name) == [kind |-> "engine", name |-> name]

\* raytraceScene (lines 1058-1085): the trace with the images nrd.rgen
\* stores to, and the barrier that follows it
raytraceScene(set) ==
  LET image(g) == poolTextureFromGBufTexture(set, g)
  IN << [op |-> "vkCmdBindPipeline", pipeline |-> engineObject("m_rtxPipe")],
        [op |-> "vkCmdBindDescriptorSets"],
        [op |-> "vkCmdPushConstants"],
        [op |-> "vkCmdTraceRaysKHR", pass |-> "raygen", stage |-> "RAY_TRACING_SHADER",
         reads |-> {},
         writes |-> {image("DirectLighting"), image("DiffRadianceHitDist"), image("SpecRadianceHitDist"),
                     image("NormalRoughness"), image("ViewZ"), image("MotionVectors"), image(eGBufLdr)},
         readsBuffer |-> FALSE],
        [op |-> "vkCmdPipelineBarrier", srcStage |-> "RAY_TRACING_SHADER", dstStage |-> "COMPUTE_SHADER",
         bufferBarriers |-> <<>>,
         imageBarriers |-> << makeImageMemoryBarrier(image("OutDiffRadianceHitDist"), "SHADER_WRITE",
                                                      "SHADER_READ", "GENERAL", "GENERAL") >>] >>

\* the lambdas of onRender lines 549-556
shaderWriteToShaderRead(set, buffer) ==
  makeImageMemoryBarrier(poolTextureFromGBufTexture(set, buffer), "SHADER_WRITE", "SHADER_READ",
                         "GENERAL", "GENERAL")

shaderReadToShaderWrite(set, buffer) ==
  makeImageMemoryBarrier(poolTextureFromGBufTexture(set, buffer), "SHADER_READ", "SHADER_WRITE",
                         "GENERAL", "GENERAL")

\* onRender lines 558-568
barriersBeforeCompose(set) ==
  << [op |-> "vkCmdPipelineBarrier", srcStage |-> "COMPUTE_SHADER", dstStage |-> "COMPUTE_SHADER",
      bufferBarriers |-> <<>>,
      imageBarriers |->
        << shaderWriteToShaderRead(set, "OutDiffRadianceHitDist"),
           shaderWriteToShaderRead(set, "OutSpecRadianceHitDist"),
           shaderWriteToShaderRead(set, "DirectLighting"),
           shaderWriteToShaderRead(set, "NormalRoughness"),
           shaderWriteToShaderRead(set, eGBufLdr),
           shaderWriteToShaderRead(set, "ViewZ"),
           shaderWriteToShaderRead(set, "OutDebugView"),
           shaderReadToShaderWrite(set, "DenoisedUnpacked") >>] >>

\* compose (lines 1227-1277) with the images compositing.comp loads and stores
compose(set) ==
  LET image(g) == poolTextureFromGBufTexture(set, g)
  IN << [op |-> "vkCmdPushDescriptorSetKHR", layout |-> engineObject("m_compositionLayout"), set |-> 0],
        [op |-> "vkCmdBindPipeline", pipeline |-> engineObject("m_compositionPipeline")],
        [op |-> "vkCmdDispatch", pass |-> "compose", stage |-> "COMPUTE_SHADER",
         reads |-> {image("OutDiffRadianceHitDist"), image("OutSpecRadianceHitDist"),
                    image("DirectLighting"), image(eGBufLdr), image("NormalRoughness"), image("ViewZ")},
         writes |-> {image("DenoisedUnpacked")}, readsBuffer |-> FALSE] >>

\* onRender lines 573-582
barriersAfterCompose(set) ==
  << [op |-> "vkCmdPipelineBarrier", srcStage |-> "COMPUTE_SHADER", dstStage |-> "COMPUTE_SHADER",
      bufferBarriers |-> <<>>,
      imageBarriers |->
        << shaderReadToShaderWrite(set, "OutDiffRadianceHitDist"),
           shaderReadToShaderWrite(set, "OutSpecRadianceHitDist"),
           shaderReadToShaderWrite(set, "DirectLighting"),
           shaderReadToShaderWrite(set, "NormalRoughness"),
           shaderReadToShaderWrite(set, eGBufLdr),
           shaderReadToShaderWrite(set, "ViewZ"),
           shaderWriteToShaderRead(set, "DenoisedUnpacked") >>] >>

\* applyTaa (lines 1280-1305) with the images the TAA shader loads and stores
applyTaa(set) ==
  LET image(g) == poolTextureFromGBufTexture(set, g)
  IN << [op |-> "vkCmdPushDescriptorSetKHR", layout |-> engineObject("m_taaLayout"), set |-> 0],
        [op |-> "vkCmdBindPipeline", pipeline |-> engineObject("m_taaPipeline")],
        [op |-> "vkCmdPushConstants"],
        [op |-> "vkCmdDispatch", pass |-> "taa", stage |-> "COMPUTE_SHADER",
         reads |-> {image("DenoisedUnpacked"), image("Taa")}, writes |-> {image("Taa")},
         readsBuffer |-> FALSE] >>

\* m_tonemapper->runCompute (line 588): from eGBufTaa to eGBufLdr (line 204).
\* The tonemapper belongs to the nvpro_core library; of what it records only the
\* dispatch is known here
tonemap(set) ==
  << [op |-> "vkCmdDispatch", pass |-> "tonemap", stage |-> "COMPUTE_SHADER",
      reads |-> {poolTextureFromGBufTexture(set, "Taa")},
      writes |-> {poolTextureFromGBufTexture(set, eGBufLdr)}, readsBuffer |-> FALSE] >>

\* setCommonSettings and setDenoiserSettings (NRDWrapper.cpp lines 305-323)
\* hand the settings to the NRD instance and touch no member of the wrapper
setCommonSettings(dev, w) ==
  [dev EXCEPT !.calls = @ \o <<[call |-> "nrd::SetCommonSettings", instance |-> w.m_instance]>>]

setDenoiserSettings(dev, w) ==
  [dev EXCEPT !.calls = @ \o <<[call |-> "nrd::SetDenoiserSettings", instance |-> w.m_instance]>>]

\* a setUserPoolTexture that leaves the pool as it was
withoutUserPoolTexture(w, resource, texture) == w

\* the wrapper after setUserPoolTexture(resource, texture)
withUserPoolTexture(w, resource, texture) ==
  [w EXCEPT !.m_userTexturePool = setUserPoolTexture(@, resource, texture)]

\* onRender (lines 433-594) for a valid scene.  The method and the dispatch lists
\* nrd::GetComputeDispatches returns are inputs.  A failed assert leaves the
\* program stopped in the middle of the recording.
onRender ==
  /\ host = "running"
  /\ m_frame <= MaxFrame
  /\ \E method \in Methods, list1 \in DispatchLists(MaxDispatches) :
     \E list2 \in DispatchLists(IF method = NRD_REFERENCE THEN MaxDispatches - Len(list1) ELSE 0) :
       LET image(g) == poolTextureFromGBufTexture(m_gBuffers, g)
           cb0 == commandBuffer(<<[op |-> "vkCmdUpdateBuffer", buffer |-> engineObject("m_bFrameInfo")]>>
                                  \o raytraceScene(m_gBuffers), FALSE)
           w1  == IF method = NRD_REFERENCE
                  THEN withUserPoolTexture(
                         withUserPoolTexture(m_nrd, "IN_SIGNAL", image("DiffRadianceHitDist")),
                         "OUT_SIGNAL", image("OutDiffRadianceHitDist"))
                  ELSE m_nrd
           cb1 == dispatchAll(w1, iDesc, NDEBUG, cb0, list1)
           w2  == IF method = NRD_REFERENCE /\ ~cb1.aborted
                  THEN withUserPoolTexture(
                         withUserPoolTexture(w1, "IN_SIGNAL", image("SpecRadianceHitDist")),
                         "OUT_SIGNAL", image("OutSpecRadianceHitDist"))
                  ELSE w1
           cb2 == dispatchAll(w2, iDesc, NDEBUG, cb1, list2)
           all == cb2.commands \o barriersBeforeCompose(m_gBuffers) \o compose(m_gBuffers)
                    \o barriersAfterCompose(m_gBuffers) \o applyTaa(m_gBuffers) \o tonemap(m_gBuffers)
           dev0 == setCommonSettings([device EXCEPT !.calls = <<[call |-> "onRender"]>>], m_nrd)
       IN /\ m_nrd' = w2
          /\ device' = IF method = NRD_REFERENCE THEN dev0
                       ELSE setDenoiserSettings(dev0, m_nrd)
          /\ nrdLists' = IF method = NRD_REFERENCE THEN <<list1, list2>> ELSE <<list1>>
          /\ IF cb2.aborted
             THEN /\ cmd' = cb2.commands
                  /\ host' = "aborted"
                  /\ m_frame' = m_frame
             ELSE /\ cmd' = all
                  /\ host' = "recorded"
                  /\ m_frame' = m_frame + 1
  /\ UNCHANGED <<NDEBUG, iDesc, m_gBuffers, m_viewSize>>
  /\ UNCHANGED pixelVars
  /\ UNCHANGED engineVars

\* the application ends the frame: it submits the command buffer, which the
\* device executes, and takes an empty one for the next frame
endFrame ==
  /\ host = "recorded"
  /\ device' = [execute(device, cmd) EXCEPT !.calls = <<[call |-> "submit"]>>]
  /\ cmd' = <<>>
  /\ nrdLists' = <<>>
  /\ host' = "running"
  /\ UNCHANGED <<NDEBUG, iDesc, m_gBuffers, m_viewSize, m_frame, m_nrd>>
  /\ UNCHANGED pixelVars
  /\ UNCHANGED engineVars

HostNext == onResize \/ onRender \/ endFrame \/ onDetach

HostSpec == HostInit /\ [][HostNext]_vars

----------------------------------------------------------------------------
\* One wrapper whose user pool the host re-points at will

\* the resource kinds and the textures the host calls setUserPoolTexture with
UserPoolKinds == {"IN_VIEWZ", "TRANSIENT_POOL", "PERMANENT_POOL"}
UserPoolImages(set) == {poolTextureFromGBufTexture(set, "OutDebugView")}

\* the application after its first onResize
UserPoolInit ==
  /\ PixelInit
  /\ EngineInit
  /\ host = "running"
  /\ NDEBUG = FALSE
  /\ iDesc \in {InstanceDesc(spaces) : spaces \in LibrarySpaces}
  /\ m_gBuffers = 2
  /\ m_viewSize = CHOOSE size \in Sizes : \A other \in Sizes : size <= other
  /\ m_frame = 0
  /\ \E made \in {NRDWrapper(createGbuffers(createGbuffers(NoDevice, 0, 1, 1), 1, 2, m_viewSize),
                             2, iDesc, m_viewSize, engineUserTexturePool(2))} :
       /\ m_nrd = made.wrapper
       /\ device = made.device
  /\ cmd = <<>>
  /\ nrdLists = <<>>

\* a call of NRDWrapper::setUserPoolTexture (lines 276-279) between two frames
SetUserPoolTexture ==
  /\ host = "running"
  /\ \E resource \in UserPoolKinds, texture \in UserPoolImages(m_gBuffers) :
       /\ m_nrd' = withUserPoolTexture(m_nrd, resource, texture)
       /\ device' = [device EXCEPT !.calls = <<[call |-> "setUserPoolTexture",
                                                resource |-> resource, texture |-> texture]>>]
  /\ UNCHANGED <<host, NDEBUG, iDesc, m_gBuffers, m_viewSize, m_frame, cmd, nrdLists>>
  /\ UNCHANGED pixelVars
  /\ UNCHANGED engineVars

UserPoolNext == SetUserPoolTexture \/ onRender \/ endFrame

UserPoolSpec == UserPoolInit /\ [][UserPoolNext]_vars

----------------------------------------------------------------------------
\* createPipelines alone, for every report of register spaces

PipelinesInit ==
  /\ PixelInit
  /\ EngineInit
  /\ host = "constructing"
  /\ NDEBUG \in BOOLEAN
  /\ iDesc \in {InstanceDescAt(spaces, textureBase, storageBase, samplersBase, offsets) :
                  spaces \in AllSpaces, textureBase \in RegisterIndices,
                  storageBase \in RegisterIndices, samplersBase \in RegisterIndices,
                  offsets \in SpirvBindingOffsets}
  /\ m_gBuffers = 1
  /\ m_viewSize = 1
  /\ m_frame = 0
  /\ m_nrd = [NRDWrapper(createGbuffers(NoDevice, 0, 1, 1), 1, iDesc, 1,
                         engineUserTexturePool(1)).wrapper
                EXCEPT !.m_pipelines = <<>>, !.m_samplersSetIndex = 0, !.m_resourcesSetIndex = 0]
  /\ device = NoDevice
  /\ cmd = <<>>
  /\ nrdLists = <<>>

\* the call of createPipelines at the end of the constructor (line 243)
CreatePipelines ==
  /\ host = "constructing"
  /\ m_nrd' = createPipelines(m_nrd, iDesc)
  /\ host' = "constructed"
  /\ UNCHANGED <<NDEBUG, iDesc, m_gBuffers, m_viewSize, m_frame, device, cmd, nrdLists>>
  /\ UNCHANGED pixelVars
  /\ UNCHANGED engineVars

\* one NRDWrapper::dispatch on the wrapper just constructed
Dispatch ==
  /\ host = "constructed"
  /\ \E dispatchDesc \in DispatchDescs :
       LET cb == dispatch(m_nrd, iDesc, NDEBUG, commandBuffer(<<>>, FALSE), dispatchDesc)
       IN /\ cmd' = cb.commands
          /\ nrdLists' = << <<dispatchDesc>> >>
          /\ host' = IF cb.aborted THEN "aborted" ELSE "recorded"
  /\ UNCHANGED <<NDEBUG, iDesc, m_gBuffers, m_viewSize, m_frame, m_nrd, device>>
  /\ UNCHANGED pixelVars
  /\ UNCHANGED engineVars

PipelinesNext == CreatePipelines \/ Dispatch

PipelinesSpec == PipelinesInit /\ [][PipelinesNext]_vars

----------------------------------------------------------------------------
\* halton(index) (RealtimeDenoiser.cpp lines 85-102).  A float that is a
\* fraction is the pair <<numerator, denominator>>; the rounding of the
\* divisions by 3.0F is left out, so a.y and a.w are the exact fractions.

\* largest index halton is called with
MaxIndex == 40

fraction(numerator, denominator) == <<numerator, denominator>>

\* a / c for a float a and a whole c (lines 93-94)
divided(a, c) == fraction(a[1], a[2] * c)

\* z + x * digit (lines 95-96); the denominator of x is a multiple of the one of z
mulAdd(z, x, digit) == fraction(z[1] * (x[2] \div z[2]) + x[1] * digit, x[2])

\* lines 88-90: coprimes, s and a before the loop
haltonEntry(index) ==
  [at |-> "loop", index |-> index, coprimes |-> <<2, 3>>, s |-> <<index, index>>,
   a |-> [x |-> fraction(1, 1), y |-> fraction(1, 1), z |-> fraction(0, 1), w |-> fraction(0, 1)]]

\* line 91: the condition of the while loop
haltonCondition(l) == l.s[1] > 0 /\ l.s[2] > 0

\* lines 93-98: the body of the while loop
haltonBody(l) ==
  LET ax == divided(l.a.x, l.coprimes[1])
      ay == divided(l.a.y, l.coprimes[2])
  IN [l EXCEPT !.a = [x |-> ax, y |-> ay,
                      z |-> mulAdd(l.a.z, ax, l.s[1] % l.coprimes[1]),
                      w |-> mulAdd(l.a.w, ay, l.s[2] % l.coprimes[2])],
               !.s = <<l.s[1] \div l.coprimes[1], l.s[2] \div l.coprimes[2]>>]

\* line 100: return vec2(a.z, a.w)
haltonResult(l) == <<l.a.z, l.a.w>>

RECURSIVE haltonLoop(_)
haltonLoop(l) == IF haltonCondition(l) THEN haltonLoop(haltonBody(l)) ELSE l

halton(index) == haltonResult(haltonLoop(haltonEntry(index)))

\* v - vec2(0.5) for a vec2 of fractions (line 465)
minusHalf(v) == [i \in 1..2 |-> fraction(2 * v[i][1] - v[i][2], 2 * v[i][2])]

\* one call of halton, followed statement by statement
HaltonCall ==
  /\ haltonCall.at \in {"idle", "returned"}
  /\ \E index \in 0..MaxIndex : haltonCall' = haltonEntry(index)
  /\ UNCHANGED memberVars
  /\ UNCHANGED <<host, NDEBUG, iDesc, m_gBuffers, m_viewSize, m_frame, m_nrd, device, cmd, nrdLists>>
  /\ UNCHANGED pixelVars

HaltonIterate ==
  /\ haltonCall.at = "loop"
  /\ haltonCondition(haltonCall)
  /\ haltonCall' = haltonBody(haltonCall)
  /\ UNCHANGED memberVars
  /\ UNCHANGED <<host, NDEBUG, iDesc, m_gBuffers, m_viewSize, m_frame, m_nrd, device, cmd, nrdLists>>
  /\ UNCHANGED pixelVars

HaltonReturn ==
  /\ haltonCall.at = "loop"
  /\ ~haltonCondition(haltonCall)
  /\ haltonCall' = [at |-> "returned", index |-> haltonCall.index,
                    result |-> haltonResult(haltonCall)]
  /\ UNCHANGED memberVars
  /\ UNCHANGED <<host, NDEBUG, iDesc, m_gBuffers, m_viewSize, m_frame, m_nrd, device, cmd, nrdLists>>
  /\ UNCHANGED pixelVars

HaltonNext == HaltonCall \/ HaltonIterate \/ HaltonReturn

HaltonSpec == Init /\ [][HaltonNext]_vars

\* a call of halton, once begun, returns
HaltonFairSpec == HaltonSpec /\ WF_vars(HaltonIterate) /\ WF_vars(HaltonReturn)

----------------------------------------------------------------------------
\* The engine from frame to frame: the UI, the file drops, the resizes, and
\* what onRender hands to the ray tracer, to the NRD library and to the
\* compositor.  nrd::GetComputeDispatches returns no dispatch here.

\* the values the sliders "Depth" and "Frames" are dragged between
DepthChoices == {1, 5}
FrameLimits == {100, 200000}

\* resetFrame (line 947): the new value of m_frame
resetFrame(frameNo) == 0

\* what the user does to the UI in one onUIRender
UIEvents == {"none", "Camera", "Depth", "Frames", "Method", "Edit", "Reset"}

\* onUIRender (lines 279-432) without the M key.  A slider reports a change
\* when its value changes, the list box when an item is clicked; the values
\* edited in Nrd_ui::render are taken without a reset (line 367).
onUIRender ==
  /\ host \in {"attached", "running"}
  /\ \E event \in UIEvents :
       LET reset == event \in {"Depth", "Frames", "Method", "Reset"}
       IN /\ CameraManip' \in IF event = "Camera" THEN Cameras \ {CameraManip} ELSE {CameraManip}
          /\ m_settings' \in
               CASE event = "Depth" ->
                      {[m_settings EXCEPT !.maxDepth = depth] : depth \in DepthChoices \ {m_settings.maxDepth}}
                 [] event = "Frames" ->
                      {[m_settings EXCEPT !.maxFrames = limit] : limit \in FrameLimits \ {m_settings.maxFrames}}
                 [] OTHER -> {m_settings}
          /\ m_pushConst' \in IF event = "Method"
                               THEN {[m_pushConst EXCEPT !.method = method] : method \in Methods}
                               ELSE {m_pushConst}
          /\ m_denoiserSettings' =
               CASE event = "Reset" -> [reblur |-> "default", relax |-> "default"]
                 [] event = "Edit" -> [reblur |-> "edited", relax |-> "edited"]
                 [] OTHER -> m_denoiserSettings
          /\ m_frame' = IF reset THEN resetFrame(m_frame) ELSE m_frame
  /\ UNCHANGED <<m_nrdSettings, m_scene, nrdSettingsLog, haltonCall>>
  /\ UNCHANGED <<host, NDEBUG, iDesc, m_gBuffers, m_viewSize, m_nrd, device, cmd, nrdLists>>
  /\ UNCHANGED pixelVars

\* onFileDrop (lines 260-277) with createScene (lines 598-626): a scene
\* that loads fits the camera to it; every drop resets the frame
onFileDrop ==
  /\ host \in {"attached", "running"}
  /\ \E extension \in {".gltf", ".hdr"}, loaded \in BOOLEAN, camera \in Cameras :
       /\ extension # ".gltf" => loaded /\ camera = CameraManip
       /\ ~loaded => camera = CameraManip
       /\ device' = vkDeviceWaitIdle([device EXCEPT !.calls =
                       <<[call |-> "onFileDrop"]>>])
       /\ m_scene' = IF extension = ".gltf" THEN [valid |-> loaded] ELSE m_scene
       /\ CameraManip' = camera
  /\ m_frame' = resetFrame(m_frame)
  /\ UNCHANGED <<m_pushConst, m_settings, m_denoiserSettings, m_nrdSettings, nrdSettingsLog, haltonCall>>
  /\ UNCHANGED <<host, NDEBUG, iDesc, m_gBuffers, m_viewSize, m_nrd, cmd, nrdLists>>
  /\ UNCHANGED pixelVars

\* glm::perspectiveRH_ZO (line 453); the aspect ratio of the square view is 1
perspectiveRH_ZO(fov) == [fov |-> fov, flipped |-> FALSE]

\* lines 443-465: m_frameInfo and unflippedProj of the frame
frameInfo(camera, frameNo) ==
  [view |-> camera.matrix,
   unflippedProj |-> perspectiveRH_ZO(camera.fov),
   proj |-> [perspectiveRH_ZO(camera.fov) EXCEPT !.flipped = TRUE],
   jitter |-> minusHalf(halton(frameNo))]

\* every frame continues the accumulation
alwaysContinue(frameNo) == "CONTINUE"

\* lines 491-492
accumulationMode(frameNo) == IF frameNo = 0 THEN "CLEAR_AND_RESTART" ELSE "CONTINUE"

\* the settings with nothing carried over from the frame before
commonSettingsAnew(settings, info, frameNo) ==
  [settings EXCEPT !.viewToClipMatrix = info.unflippedProj,
                   !.worldToViewMatrix = info.view,
                   !.cameraJitter = info.jitter,
                   !.frameIndex = frameNo,
                   !.accumulationMode = accumulationMode(frameNo)]

\* lines 477-492: m_nrdSettings after the settings block
commonSettings(settings, info, frameNo) ==
  [settings EXCEPT !.viewToClipMatrixPrev = settings.viewToClipMatrix,
                   !.viewToClipMatrix = info.unflippedProj,
                   !.worldToViewMatrixPrev = settings.worldToViewMatrix,
                   !.worldToViewMatrix = info.view,
                   !.cameraJitterPrev = settings.cameraJitter,
                   !.cameraJitter = info.jitter,
                   !.frameIndex = frameNo,
                   !.accumulationMode = accumulationMode(frameNo)]

\* nrd::Identifier(denoiser) + plus
identifier(denoiser, plus) == [denoiser |-> denoiser, plus |-> plus]

\* one RELAX denoiser whatever the method
denoisersRelax(method) == << <<identifier("RELAX_DIFFUSE_SPECULAR", 0)>> >>

\* the switch of lines 518-546: the identifiers of each denoise() call
denoisers(method) ==
  CASE method = NRD_REBLUR -> << <<identifier("REBLUR_DIFFUSE_SPECULAR", 0)>> >>
    [] method = NRD_RELAX -> << <<identifier("RELAX_DIFFUSE_SPECULAR", 0)>> >>
    [] OTHER -> << <<identifier("REFERENCE", 0)>>, <<identifier("REFERENCE", 1)>> >>

\* NRDWrapper::denoise (NRDWrapper.cpp lines 527-544) called once per entry
denoiseCalls(dev, w, calls) ==
  [dev EXCEPT !.calls = @ \o [i \in 1..Len(calls) |->
     [call |-> "NRDWrapper::denoise", instance |-> w.m_instance, denoisers |-> calls[i]]]]

\* the push-constant range each pipeline layout is created with (lines 830,
\* 1142 and 1191)
pushConstantRange(layout) ==
  CASE layout = "m_rtxPipe.layout" -> [offset |-> 0, size |-> "sizeof(RtxPushConstant)"]
    [] layout = "m_compositionLayout" -> [offset |-> 0, size |-> "sizeof(RtxPushConstant)"]
    [] layout = "m_taaLayout" -> [offset |-> 0, size |-> "sizeof(float)"]

\* RtxPushConstant (part_000 lines 209-219) by byte offset
pushConstantBytes(pushConst) ==
  (0 :> pushConst.frame) @@ (8 :> pushConst.maxDepth) @@ (12 :> pushConst.method)

\* the vkCmdPushConstants of the commands with its layout and its data
\* (lines 1068 and 1301)
pushed(commands, layout, values) ==
  [i \in DOMAIN commands |->
     IF commands[i].op = "vkCmdPushConstants"
     THEN commands[i] @@ [layout |-> engineObject(layout), values |-> values]
     ELSE commands[i]]

\* onRender (lines 433-594): the early return for an invalid scene, else the
\* frame with the settings block
onRenderFrame ==
  /\ host = "running"
  /\ m_frame <= MaxFrame
  /\ IF ~m_scene.valid
     THEN /\ device' = [device EXCEPT !.calls = <<[call |-> "onRender"]>>]
          /\ UNCHANGED <<host, m_frame, m_nrd, cmd, nrdLists, memberVars>>
     ELSE LET image(g)  == poolTextureFromGBufTexture(m_gBuffers, g)
              info      == frameInfo(CameraManip, m_frame)
              pushConst == [m_pushConst EXCEPT !.maxDepth = m_settings.maxDepth, !.frame = m_frame]
              settings  == commonSettings(m_nrdSettings, info, m_frame)
              reference == m_pushConst.method \notin {NRD_REBLUR, NRD_RELAX}
              dev0      == setCommonSettings([device EXCEPT !.calls = <<[call |-> "onRender"]>>], m_nrd)
              dev1      == IF reference THEN dev0 ELSE setDenoiserSettings(dev0, m_nrd)
          IN /\ m_pushConst' = pushConst
             /\ m_nrdSettings' = settings
             /\ nrdSettingsLog' = <<settings>>
             /\ device' = denoiseCalls(dev1, m_nrd, denoisers(m_pushConst.method))
             /\ m_nrd' = IF reference
                         THEN withUserPoolTexture(
                                withUserPoolTexture(m_nrd, "IN_SIGNAL", image("SpecRadianceHitDist")),
                                "OUT_SIGNAL", image("OutSpecRadianceHitDist"))
                         ELSE m_nrd
             /\ nrdLists' = IF reference THEN << <<>>, <<>> >> ELSE << <<>> >>
             /\ cmd' = <<[op |-> "vkCmdUpdateBuffer", buffer |-> engineObject("m_bFrameInfo")]>>
                         \o pushed(raytraceScene(m_gBuffers), "m_rtxPipe.layout",
                                   pushConstantBytes(pushConst))
                         \o barriersBeforeCompose(m_gBuffers) \o compose(m_gBuffers)
                         \o barriersAfterCompose(m_gBuffers)
                         \o pushed(applyTaa(m_gBuffers), "m_taaLayout", (0 :> "alpha"))
                         \o tonemap(m_gBuffers)
             /\ host' = "recorded"
             /\ m_frame' = m_frame + 1
             /\ UNCHANGED <<m_settings, m_denoiserSettings, CameraManip, m_scene>>
  /\ UNCHANGED <<NDEBUG, iDesc, m_gBuffers, m_viewSize, haltonCall>>
  /\ UNCHANGED pixelVars

\* the state after onAttach and the first onResize, with the NRD library of
\* the build: the G-buffer set is numbered so that one more resize is followed
FrameInit ==
  /\ PixelInit
  /\ EngineInit
  /\ host = "running"
  /\ NDEBUG = FALSE
  /\ iDesc = InstanceDesc(CHOOSE spaces \in LibrarySpaces : TRUE)
  /\ m_gBuffers = MaxResizes
  /\ m_viewSize = 1
  /\ m_frame = 0
  /\ LET made == NRDWrapper(createGbuffers(NoDevice, 0, MaxResizes, 1), MaxResizes, iDesc, 1,
                            engineUserTexturePool(MaxResizes))
     IN /\ m_nrd = made.wrapper
        /\ device = made.device
  /\ cmd = <<>>
  /\ nrdLists = <<>>

FrameNext == onResize \/ onUIRender \/ onFileDrop \/ onRenderFrame \/ endFrame

FrameSpec == FrameInit /\ [][FrameNext]_vars

\* C20: for every report of the three space indices, createPipelines builds
\* per pipeline as many descriptor-set layouts as there are distinct values
\* among the three indices, and two categories get the same set index exactly
\* when their reported space indices are equal.
C20_SetLayouts ==
  host = "constructed" =>
    LET c == iDesc.constantBufferSpaceIndex
        s == iDesc.samplersSpaceIndex
        r == iDesc.resourcesSpaceIndex
    IN /\ \A p \in DOMAIN m_nrd.m_pipelines :
            Len(m_nrd.m_pipelines[p].descriptorLayouts) = Cardinality({c, s, r})
       /\ DOMAIN m_nrd.m_pipelines = 1..Len(iDesc.pipelines)
       /\ (m_nrd.m_constantBufferSetIndex = m_nrd.m_samplersSetIndex) <=> (c = s)
       /\ (m_nrd.m_constantBufferSetIndex = m_nrd.m_resourcesSetIndex) <=> (c = r)
       /\ (m_nrd.m_samplersSetIndex = m_nrd.m_resourcesSetIndex) <=> (s = r)

\* C20 witness: samplers and resources share a space the constant buffer is
\* not in, and two layouts were built
C20_Witness ==
  /\ host = "constructed"
  /\ iDesc.samplersSpaceIndex = iDesc.resourcesSpaceIndex
  /\ iDesc.samplersSpaceIndex # iDesc.constantBufferSpaceIndex
  /\ Len(m_nrd.m_pipelines[1].descriptorLayouts) = 2

----------------------------------------------------------------------------
\* Properties of the command buffer that onRender has recorded

\* the dispatch descriptors the wrapper was given in this onRender, in order
RECURSIVE concat(_)
concat(lists) == IF lists = <<>> THEN <<>> ELSE Head(lists) \o concat(Tail(lists))

\* a dispatch descriptor that names a resource under another kind than its
\* pipeline declares for the range the resource falls in
kindMismatch(dispatchDesc) ==
  LET slots == rangeSlots(iDesc.pipelines[dispatchDesc.pipelineIndex + 1].resourceRanges)
  IN \E n \in DOMAIN slots : dispatchDesc.resources[n].descriptorType # slots[n].descriptorType

\* a descriptor pushed under another kind than its binding range has
wrongKind(update) ==
  update.descriptorType #
    (IF update.dstBinding.base = "textureOffset"
     THEN "VK_DESCRIPTOR_TYPE_SAMPLED_IMAGE" ELSE "VK_DESCRIPTOR_TYPE_STORAGE_IMAGE")

\* the commands of the wrapper in the command buffer
isWrapperPush(c) == c.op = "vkCmdPushDescriptorSetKHR" /\ c.layout.kind = "pipelineLayout"
isWrapperBind(c) == c.op = "vkCmdBindPipeline" /\ c.pipeline.kind = "pipeline"
isWrapperDispatch(c) == c.op = "vkCmdDispatch" /\ c.pass = "denoise"

\* C11 as claimed: a dispatch descriptor with a resource whose kind differs
\* from the kind its pipeline range declares stops the program (assertion
\* failure) before any command of that dispatch is recorded, so the command
\* buffer holds no descriptor pushed under the wrong kind and, after the
\* dispatches before the offending one, nothing of the wrapper.
C11_MismatchIsFatal ==
  LET all == concat(nrdLists)
      bad == {i \in DOMAIN all : kindMismatch(all[i])}
  IN /\ \A i \in DOMAIN cmd :
          isWrapperPush(cmd[i]) => \A n \in DOMAIN cmd[i].updates : ~wrongKind(cmd[i].updates[n])
     /\ bad # {} =>
          /\ host = "aborted"
          /\ Len(SelectSeq(cmd, isWrapperDispatch)) < CHOOSE i \in bad : \A j \in bad : i <= j
          /\ cmd[Len(cmd)].op \in {"vkCmdDispatch", "vkCmdPipelineBarrier"}
          /\ cmd[Len(cmd)].op = "vkCmdPipelineBarrier" => cmd[Len(cmd)].srcStage = "RAY_TRACING_SHADER"

\* C11 witness: a build with NDEBUG recorded the whole frame, and a dispatch
\* of it has a sampled image bound at a storage binding
C11_Witness ==
  /\ host = "recorded"
  /\ NDEBUG
  /\ \E i \in DOMAIN cmd :
       /\ isWrapperPush(cmd[i])
       /\ \E n \in DOMAIN cmd[i].updates : wrongKind(cmd[i].updates[n])
       /\ isWrapperDispatch(cmd[i + 2])

\* C12: one denoise() call records one vkCmdDispatch per dispatch descriptor
\* of the list, in list order, each after the bind of that descriptor's
\* pipeline and with its grid size: none is reordered, merged or skipped.  (A
\* program stopped by an assert has recorded this for the dispatches before.)
C12_OneDispatchPerDescriptor ==
  host \in {"recorded", "aborted"} =>
    LET all  == concat(nrdLists)
        isBindOrDispatch(c) == isWrapperBind(c) \/ isWrapperDispatch(c)
        recorded == SelectSeq(cmd, isBindOrDispatch)
        n == Len(recorded) \div 2
    IN /\ Len(recorded) = 2 * n
       /\ n <= Len(all)
       /\ host = "recorded" => n = Len(all)
       /\ \A i \in 1..n :
            /\ isWrapperBind(recorded[2 * i - 1])
            /\ recorded[2 * i - 1].pipeline = m_nrd.m_pipelines[all[i].pipelineIndex + 1].pipeline
            /\ isWrapperDispatch(recorded[2 * i])
            /\ recorded[2 * i].x = all[i].gridWidth
            /\ recorded[2 * i].y = all[i].gridHeight

\* C12 witness: a list of two dispatches of different pipelines and grids
\* was recorded
C12_Witness ==
  /\ host = "recorded"
  /\ Len(nrdLists) = 1
  /\ Len(nrdLists[1]) = 2
  /\ nrdLists[1][1].pipelineIndex # nrdLists[1][2].pipelineIndex
  /\ nrdLists[1][1].gridWidth # nrdLists[1][2].gridWidth
  /\ Len(SelectSeq(cmd, isWrapperDispatch)) = 2

\* position in the command buffer of the k-th vkCmdDispatch of the wrapper
dispatchPosition(k) ==
  IF k = 0 THEN 0
  ELSE CHOOSE i \in DOMAIN cmd :
         /\ isWrapperDispatch(cmd[i])
         /\ Cardinality({j \in 1..i : isWrapperDispatch(cmd[j])}) = k

\* the number of the denoise() call of this onRender that dispatch k belongs to
denoiseCall(k) == IF k <= Len(nrdLists[1]) THEN 1 ELSE 2

\* the texture the user pool held for a resource kind when dispatch k was
\* recorded: the reference path re-points IN_SIGNAL and OUT_SIGNAL before each
\* of its two denoise() calls
userTextureAt(k, type) ==
  IF Len(nrdLists) = 2 /\ type \in {"IN_SIGNAL", "OUT_SIGNAL"}
  THEN [kind |-> "gbuffer", set |-> m_gBuffers,
        name |-> IF type = "IN_SIGNAL"
                 THEN (IF denoiseCall(k) = 1 THEN "DiffRadianceHitDist" ELSE "SpecRadianceHitDist")
                 ELSE (IF denoiseCall(k) = 1 THEN "OutDiffRadianceHitDist" ELSE "OutSpecRadianceHitDist")]
  ELSE m_nrd.m_userTexturePool[type]

\* C13: for every recorded dispatch, between the previous vkCmdDispatch of the
\* wrapper and its own there is exactly one image-barrier command, one
\* descriptor push and one pipeline bind of the wrapper; every resource named
\* by the dispatch is resolved to the texture of its pool (transient or
\* permanent by index, user pool by kind), pushed in layout GENERAL, and has a
\* barrier on that texture: read-to-write in a storage range, write-to-read
\* in a sampled range, GENERAL to GENERAL.
C13_ResourceBarriers ==
  host \in {"recorded", "aborted"} =>
    LET all == concat(nrdLists)
    IN \A k \in 1..Len(SelectSeq(cmd, isWrapperDispatch)) :
         LET between == (dispatchPosition(k - 1) + 1)..(dispatchPosition(k) - 1)
             slots   == rangeSlots(iDesc.pipelines[all[k].pipelineIndex + 1].resourceRanges)
             texture(n) ==
               LET r == all[k].resources[n]
               IN IF r.type = "TRANSIENT_POOL" THEN m_nrd.m_transientTextures[r.indexInPool + 1]
                  ELSE IF r.type = "PERMANENT_POOL" THEN m_nrd.m_permanentTextures[r.indexInPool + 1]
                  ELSE userTextureAt(k, r.type)
             barriers == {i \in between : /\ cmd[i].op = "vkCmdPipelineBarrier"
                                          /\ cmd[i].srcStage = "COMPUTE_SHADER"
                                          /\ cmd[i].imageBarriers # <<>>}
             pushes   == {i \in between : isWrapperPush(cmd[i])}
             binds    == {i \in between : isWrapperBind(cmd[i])}
         IN /\ Cardinality(barriers) = 1
            /\ Cardinality(pushes) = 1
            /\ Cardinality(binds) = 1
            /\ \A b \in barriers :
                 /\ DOMAIN cmd[b].imageBarriers = DOMAIN slots
                 /\ cmd[b].dstStage = "COMPUTE_SHADER"
                 /\ \A n \in DOMAIN slots :
                      cmd[b].imageBarriers[n] =
                        IF slots[n].descriptorType = "STORAGE_TEXTURE"
                        THEN [image |-> texture(n), srcAccess |-> "SHADER_READ",
                              dstAccess |-> "SHADER_WRITE", oldLayout |-> "GENERAL",
                              newLayout |-> "GENERAL"]
                        ELSE [image |-> texture(n), srcAccess |-> "SHADER_WRITE",
                              dstAccess |-> "SHADER_READ", oldLayout |-> "GENERAL",
                              newLayout |-> "GENERAL"]
            /\ \A p \in pushes :
                 /\ DOMAIN cmd[p].updates = DOMAIN slots
                 /\ \A n \in DOMAIN slots :
                      /\ cmd[p].updates[n].imageView = texture(n)
                      /\ cmd[p].updates[n].imageLayout = "GENERAL"

\* C13 witness: two dispatches were recorded, the second of which reads a
\* transient texture and writes a user-pool texture, each with its barrier
C13_Witness ==
  /\ host = "recorded"
  /\ Len(SelectSeq(cmd, isWrapperDispatch)) = 2
  /\ \E b \in (dispatchPosition(1) + 1)..(dispatchPosition(2) - 1) :
       /\ cmd[b].op = "vkCmdPipelineBarrier"
       /\ \E n, o \in DOMAIN cmd[b].imageBarriers :
            /\ cmd[b].imageBarriers[n].image \in {m_nrd.m_transientTextures[t] : t \in DOMAIN m_nrd.m_transientTextures}
            /\ cmd[b].imageBarriers[n].dstAccess = "SHADER_READ"
            /\ cmd[b].imageBarriers[o].image.kind = "gbuffer"
            /\ cmd[b].imageBarriers[o].dstAccess = "SHADER_WRITE"

\* an upload of the wrapper's constant buffer, and a barrier on that buffer
isConstantUpload(c) == c.op = "vkCmdUpdateBuffer" /\ c.buffer = m_nrd.m_constantBuffer
isConstantBarrier(c, srcStage, srcAccess, dstStage, dstAccess) ==
  /\ c.op = "vkCmdPipelineBarrier"
  /\ c.srcStage = srcStage
  /\ c.dstStage = dstStage
  /\ c.bufferBarriers = << [buffer |-> m_nrd.m_constantBuffer, srcAccess |-> srcAccess,
                            dstAccess |-> dstAccess] >>

\* C14: an upload of the shared constant buffer is recorded exactly for the
\* dispatches whose pipeline has constant data and whose data is not flagged
\* as matching the previous dispatch; it stands between a shader-read to
\* transfer-write barrier and a transfer-write to shader-read barrier on the
\* buffer, all three after the previous vkCmdDispatch and before its own; a
\* dispatch with the flag set (or without constant data) has neither upload
\* nor buffer barrier; and so every upload is separated from every earlier
\* vkCmdDispatch by the barrier in front of it.
C14_ConstantBufferDiscipline ==
  host \in {"recorded", "aborted"} =>
    LET all == concat(nrdLists)
        n   == Len(SelectSeq(cmd, isWrapperDispatch))
    IN /\ \A k \in 1..n :
            LET between == (dispatchPosition(k - 1) + 1)..(dispatchPosition(k) - 1)
                uploads == {i \in between : isConstantUpload(cmd[i])}
                fences  == {i \in between : /\ cmd[i].op = "vkCmdPipelineBarrier"
                                            /\ cmd[i].bufferBarriers # <<>>}
                changed == /\ iDesc.pipelines[all[k].pipelineIndex + 1].hasConstantData
                           /\ ~all[k].constantBufferDataMatchesPreviousDispatch
            IN IF changed
               THEN \E u \in between :
                      /\ uploads = {u}
                      /\ fences = {u - 1, u + 1}
                      /\ isConstantBarrier(cmd[u - 1], "COMPUTE_SHADER", "SHADER_READ",
                                           "TRANSFER", "TRANSFER_WRITE")
                      /\ isConstantBarrier(cmd[u + 1], "TRANSFER", "TRANSFER_WRITE",
                                           "COMPUTE_SHADER", "SHADER_READ")
               ELSE uploads = {} /\ fences = {}
       /\ \A u \in DOMAIN cmd :
            isConstantUpload(cmd[u]) =>
              /\ u < dispatchPosition(n)
              /\ \A i \in 1..(u - 1) :
                   isWrapperDispatch(cmd[i]) =>
                     \E j \in (i + 1)..(u - 1) :
                       isConstantBarrier(cmd[j], "COMPUTE_SHADER", "SHADER_READ",
                                         "TRANSFER", "TRANSFER_WRITE")

\* C14 witness: of two recorded dispatches of the pipeline with constant
\* data, the first uploaded and the second, flagged unchanged, did not
C14_Witness ==
  /\ host = "recorded"
  /\ Len(nrdLists) = 1
  /\ Len(nrdLists[1]) = 2
  /\ \A k \in 1..2 : iDesc.pipelines[nrdLists[1][k].pipelineIndex + 1].hasConstantData
  /\ ~nrdLists[1][1].constantBufferDataMatchesPreviousDispatch
  /\ nrdLists[1][2].constantBufferDataMatchesPreviousDispatch
  /\ Len(SelectSeq(cmd, isConstantUpload)) = 1
  /\ \E u \in 1..dispatchPosition(1) : isConstantUpload(cmd[u])

\* the textures of the wrapper's permanent and transient pools
poolTextures(w) ==
  IF w.alive
  THEN {w.m_permanentTextures[t] : t \in DOMAIN w.m_permanentTextures}
         \cup {w.m_transientTextures[t] : t \in DOMAIN w.m_transientTextures}
  ELSE {}

\* C15: when the constructor has returned, every permanent-pool and
\* transient-pool texture is in layout GENERAL and holds zeros, with no
\* command on it still pending on the device; from then on a pool texture
\* holds zeros or what a dispatch wrote, so no recorded denoise dispatch reads
\* a pool texture that was never cleared.
C15_PoolsClearedBeforeUse ==
  /\ \A t \in poolTextures(m_nrd) :
       /\ t \in device.live
       /\ device.layout[t] = "GENERAL"
       /\ device.content[t] \in {"zero", "written"}
       /\ \A i \in DOMAIN device.pending :
            device.pending[i].op \in {"layoutBarrier", "clear"} => device.pending[i].image # t
       /\ (device.calls # <<>> /\ device.calls[1].call = "onResize") => device.content[t] = "zero"
  /\ \A i \in DOMAIN cmd :
       isWrapperDispatch(cmd[i]) =>
         \A t \in cmd[i].reads \cap poolTextures(m_nrd) : device.content[t] # "undefined"

\* C15 witness: the first frame after a construction has a recorded dispatch
\* that reads a permanent texture, which holds the zeros of the clear
C15_Witness ==
  /\ host = "recorded"
  /\ \E i \in DOMAIN cmd :
       /\ isWrapperDispatch(cmd[i])
       /\ \E t \in cmd[i].reads :
            /\ t \in {m_nrd.m_permanentTextures[p] : p \in DOMAIN m_nrd.m_permanentTextures}
            /\ device.content[t] = "zero"

\* C16: after construction the textures of the permanent and the transient
\* pool stay the same objects, in the same layout and of the same size, and
\* their contents change only when the device executes a denoise dispatch
\* that writes them; setUserPoolTexture(r, t) puts t in slot r of the user
\* pool and changes no other slot, whatever r is, TRANSIENT_POOL and
\* PERMANENT_POOL included; the settings setters change no pool; and no other
\* step of the host changes a user slot, except the reference path's own
\* setUserPoolTexture calls on IN_SIGNAL and OUT_SIGNAL.
C16_PoolsOwnedByDispatches ==
  [][ LET isSet == device'.calls # <<>> /\ device'.calls[1].call = "setUserPoolTexture"
          setsSettings == \E i \in DOMAIN device'.calls :
                            device'.calls[i].call \in {"nrd::SetCommonSettings",
                                                       "nrd::SetDenoiserSettings"}
          changed == {k \in ResourceTypes :
                        m_nrd'.m_userTexturePool[k] # m_nrd.m_userTexturePool[k]}
      IN (m_nrd.alive /\ m_nrd'.alive /\ m_nrd'.id = m_nrd.id) =>
           /\ m_nrd'.m_permanentTextures = m_nrd.m_permanentTextures
           /\ m_nrd'.m_transientTextures = m_nrd.m_transientTextures
           /\ \A t \in poolTextures(m_nrd) :
                /\ t \in device'.live
                /\ device'.layout[t] = device.layout[t]
                /\ device'.extent[t] = device.extent[t]
                /\ device'.content[t] # device.content[t] =>
                     /\ host = "recorded"
                     /\ host' = "running"
                     /\ \E i \in DOMAIN cmd : isWrapperDispatch(cmd[i]) /\ t \in cmd[i].writes
           /\ isSet =>
                \A k \in ResourceTypes :
                  m_nrd'.m_userTexturePool[k] =
                    IF k = device'.calls[1].resource THEN device'.calls[1].texture
                    ELSE m_nrd.m_userTexturePool[k]
           /\ (setsSettings /\ Len(nrdLists') = 1) => changed = {}
           /\ changed # {} =>
                \/ isSet
                \/ Len(nrdLists') = 2 /\ changed \subseteq {"IN_SIGNAL", "OUT_SIGNAL"}
    ]_vars

\* C16 witness: after a frame whose dispatches wrote a pool texture, the host
\* has called setUserPoolTexture(TRANSIENT_POOL, t): slot TRANSIENT_POOL holds
\* t, slot PERMANENT_POOL is still empty
C16_Witness ==
  /\ device.calls # <<>>
  /\ device.calls[1].call = "setUserPoolTexture"
  /\ device.calls[1].resource = "TRANSIENT_POOL"
  /\ m_nrd.m_userTexturePool["TRANSIENT_POOL"] = device.calls[1].texture
  /\ m_nrd.m_userTexturePool["PERMANENT_POOL"] = NullTexture
  /\ \E t \in poolTextures(m_nrd) : device.content[t] = "written"

\* the objects a wrapper has created
wrapperObjects(w) ==
  {w.m_instance, w.m_constantBuffer}
    \cup poolTextures(w)
    \cup {w.m_samplers[t] : t \in DOMAIN w.m_samplers}
    \cup UNION {{w.m_pipelines[p].pipeline, w.m_pipelines[p].pipelineLayout}
                  \cup {w.m_pipelines[p].descriptorLayouts[l] :
                          l \in DOMAIN w.m_pipelines[p].descriptorLayouts} :
                p \in DOMAIN w.m_pipelines}

\* C17: when onResize(w, h) has returned, the frame counter is 0, the live
\* objects are exactly a G-buffer set and a wrapper made by this call, the
\* G-buffer images have size w and the pool textures size w divided by their
\* downsample factor (rounded up), freshly cleared; and at every time
\* afterwards every non-empty slot of the wrapper's user pool, and every image
\* a recorded pass of a frame reads or writes, is a live image of the current
\* G-buffer set or a live object of the current wrapper.
C17_ResizeRecreatesEverything ==
  m_nrd.alive =>
    /\ (device.calls # <<>> /\ device.calls[1].call = "onResize") =>
         /\ m_frame = 0
         /\ m_viewSize = device.calls[1].width
         /\ \E i \in DOMAIN device.calls :
              device.calls[i] = [call |-> "createGbuffers", set |-> m_gBuffers]
         /\ m_nrd.id = m_gBuffers
         /\ \A g \in GbufferNames :
              device.extent[[kind |-> "gbuffer", set |-> m_gBuffers, name |-> g]] = m_viewSize
         /\ \A t \in DOMAIN m_nrd.m_permanentTextures :
              /\ device.extent[m_nrd.m_permanentTextures[t]] =
                   (m_viewSize + iDesc.permanentPool[t].downsampleFactor - 1)
                     \div iDesc.permanentPool[t].downsampleFactor
              /\ device.content[m_nrd.m_permanentTextures[t]] = "zero"
         /\ \A t \in DOMAIN m_nrd.m_transientTextures :
              /\ device.extent[m_nrd.m_transientTextures[t]] =
                   (m_viewSize + iDesc.transientPool[t].downsampleFactor - 1)
                     \div iDesc.transientPool[t].downsampleFactor
              /\ device.content[m_nrd.m_transientTextures[t]] = "zero"
         /\ Len(m_nrd.m_pipelines) = Len(iDesc.pipelines)
    /\ device.live = {[kind |-> "gbuffer", set |-> m_gBuffers, name |-> g] : g \in GbufferNames}
                       \cup wrapperObjects(m_nrd)
    /\ \A o \in wrapperObjects(m_nrd) : o.owner = m_nrd.id
    /\ \A r \in ResourceTypes :
         \/ m_nrd.m_userTexturePool[r] = NullTexture
         \/ /\ m_nrd.m_userTexturePool[r].kind = "gbuffer"
            /\ m_nrd.m_userTexturePool[r].set = m_gBuffers
            /\ m_nrd.m_userTexturePool[r] \in device.live
    /\ \A i \in DOMAIN cmd :
         cmd[i].op \in {"vkCmdDispatch", "vkCmdTraceRaysKHR"} =>
           (cmd[i].reads \cup cmd[i].writes) \ {NullTexture} \subseteq device.live

\* C17 witness: after a second resize, to another size than the first, a
\* frame of the reference path has been recorded whose dispatches read the
\* user-pool slot IN_SIGNAL
C17_Witness ==
  /\ host = "recorded"
  /\ m_gBuffers = MaxResizes + 1
  /\ Len(nrdLists) = 2
  /\ \E i \in DOMAIN cmd :
       /\ isWrapperDispatch(cmd[i])
       /\ [kind |-> "gbuffer", set |-> m_gBuffers, name |-> "SpecRadianceHitDist"] \in cmd[i].reads

\* the calls of the last handler that destroy an object
isDestroy(c) ==
  c.call \in {"destroy", "releaseSampler", "vkDestroyPipeline", "vkDestroyPipelineLayout",
              "vkDestroyDescriptorSetLayout", "nrd::DestroyInstance"}

\* C18: the constructor copies the user pool it is given; when a handler has
\* run ~NRDWrapper, the destroy calls it made come after a vkDeviceWaitIdle,
\* name exactly the objects that wrapper created (constant buffer, samplers,
\* transient and permanent textures, pipelines with their layouts and set
\* layouts, the NRD instance), each once, and none names a texture of the
\* user pool (a G-buffer image).
C18_DestructorDestroysOwnObjects ==
  (device.calls # <<>> /\ device.calls[1].call \in {"onResize", "onDetach"}) =>
    LET destroys == SelectSeq(device.calls, isDestroy)
        id       == IF device.calls[1].call = "onDetach" THEN m_gBuffers ELSE m_gBuffers - 1
        samplers == {[kind |-> "sampler", owner |-> id, index |-> t] : t \in 1..iDesc.samplersNum}
        textures == {[kind |-> "transient", owner |-> id, index |-> t] :
                       t \in 1..iDesc.transientPoolSize}
                      \cup {[kind |-> "permanent", owner |-> id, index |-> t] :
                              t \in 1..iDesc.permanentPoolSize}
        first    == CHOOSE i \in DOMAIN device.calls :
                      isDestroy(device.calls[i]) /\ \A j \in 1..(i - 1) : ~isDestroy(device.calls[j])
        objects  == {destroys[i].object : i \in DOMAIN destroys}
    IN /\ (device.calls[1].call = "onResize") =>
            \A r \in DOMAIN userTexturePool :
              m_nrd.m_userTexturePool[r] =
                [kind |-> "gbuffer", set |-> m_gBuffers, name |-> userTexturePool[r]]
       /\ destroys # <<>> =>
            /\ device.calls[first - 1].call = "vkDeviceWaitIdle"
            /\ Cardinality(objects) = Len(destroys)
            /\ \A o \in objects : o.kind # "gbuffer" /\ o.owner = id /\ o \notin device.live
            /\ samplers \cup textures \subseteq objects
            /\ [kind |-> "constantBuffer", owner |-> id, index |-> 0] \in objects
            /\ [kind |-> "instance", owner |-> id, index |-> 0] \in objects
            /\ Cardinality({o \in objects : o.kind = "pipeline"}) = Len(iDesc.pipelines)
            /\ Cardinality({o \in objects : o.kind = "pipelineLayout"}) = Len(iDesc.pipelines)
            /\ Cardinality({o \in objects : o.kind = "setLayout"}) =
                 Len(iDesc.pipelines)
                   * Cardinality({iDesc.constantBufferSpaceIndex, iDesc.samplersSpaceIndex,
                                  iDesc.resourcesSpaceIndex})
            /\ \A o \in objects :
                 o.kind \in {"sampler", "transient", "permanent", "constantBuffer", "instance",
                             "pipeline", "pipelineLayout", "setLayout"}
            /\ Cardinality({o \in objects : o.kind \in {"sampler", "transient", "permanent"}}) =
                 Cardinality(samplers \cup textures)
            /\ Cardinality({o \in objects : o.kind \in {"constantBuffer", "instance"}}) = 2
            /\ \A o \in device.live : o.kind = "gbuffer" \/ o.owner # id

\* C18 witness: a resize has destroyed the wrapper of the previous size,
\* whose user pool named the G-buffer images of that size
C18_Witness ==
  /\ device.calls # <<>>
  /\ device.calls[1].call = "onResize"
  /\ m_gBuffers = MaxResizes + 1
  /\ \E i \in DOMAIN device.calls :
       device.calls[i] = [call |-> "nrd::DestroyInstance",
                          object |-> [kind |-> "instance", owner |-> m_gBuffers - 1, index |-> 0]]

\* a pass of the frame: the trace or a compute dispatch
isPass(c) == c.op \in {"vkCmdDispatch", "vkCmdTraceRaysKHR"}

\* a barrier command that makes the writes of a stage to an image visible to
\* the reads of a stage
isWriteToReadBarrier(c, image, srcStage, dstStage) ==
  /\ c.op = "vkCmdPipelineBarrier"
  /\ c.srcStage = srcStage
  /\ c.dstStage = dstStage
  /\ \E n \in DOMAIN c.imageBarriers :
       /\ c.imageBarriers[n].image = image
       /\ c.imageBarriers[n].srcAccess = "SHADER_WRITE"
       /\ c.imageBarriers[n].dstAccess = "SHADER_READ"

\* C19 as claimed: in the command stream of one onRender, for every image
\* that a pass writes and a later pass reads (with no writer in between), an
\* image barrier on that image from the writes of the producer's stage to the
\* reads of the consumer's stage is recorded between the two passes.
C19_BarrierPerDependency ==
  host = "recorded" =>
    \A i, j \in DOMAIN cmd :
      (i < j /\ isPass(cmd[i]) /\ isPass(cmd[j])) =>
        \A t \in (cmd[i].writes \cap cmd[j].reads) \ {NullTexture} :
          (\A k \in (i + 1)..(j - 1) : isPass(cmd[k]) => t \notin cmd[k].writes) =>
            \E b \in (i + 1)..(j - 1) :
              isWriteToReadBarrier(cmd[b], t, cmd[i].stage, cmd[j].stage)

\* C19 witness: a recorded frame in which ray generation writes the direct
\* lighting image and the compositor reads it, while the only barrier whose
\* source is the ray-tracing stage names another image
C19_Witness ==
  /\ host = "recorded"
  /\ \E i, j \in DOMAIN cmd :
       /\ i < j
       /\ cmd[i].op = "vkCmdTraceRaysKHR"
       /\ cmd[j].op = "vkCmdDispatch"
       /\ cmd[j].pass = "compose"
       /\ [kind |-> "gbuffer", set |-> m_gBuffers, name |-> "DirectLighting"]
            \in cmd[i].writes \cap cmd[j].reads
       /\ \A b \in (i + 1)..(j - 1) :
            ~isWriteToReadBarrier(cmd[b], [kind |-> "gbuffer", set |-> m_gBuffers,
                                           name |-> "DirectLighting"],
                                  "RAY_TRACING_SHADER", "COMPUTE_SHADER")
       /\ \E b \in (i + 1)..(j - 1) :
            isWriteToReadBarrier(cmd[b], [kind |-> "gbuffer", set |-> m_gBuffers,
                                          name |-> "OutDiffRadianceHitDist"],
                                 "RAY_TRACING_SHADER", "COMPUTE_SHADER")

----------------------------------------------------------------------------
\* Properties of the layouts createPipelines builds

\* the number of a binding under the offsets the library reports
bindingNumber(b) == iDesc.spirvBindingOffsets[b.base] + b.index

\* the bindings a set layout of a pipeline declares, as (number, type) pairs
declared(p, set) ==
  LET bindings == m_nrd.m_pipelines[p].setBindings[set + 1]
  IN {<<bindingNumber(bindings[k].binding), bindings[k].descriptorType>> : k \in DOMAIN bindings}

\* every descriptor write of a vkCmdPushDescriptorSetKHR of the wrapper
writes(push) ==
  {push.updates[n] : n \in DOMAIN push.updates}
    \cup {push.samplerUpdates[n] : n \in DOMAIN push.samplerUpdates}
    \cup {push.constantBufferUpdate[n] : n \in DOMAIN push.constantBufferUpdate}

\* C21 as claimed: for every report of binding offsets and base register
\* indices, every descriptor write that dispatch() pushes for a dispatch whose
\* resources have the kinds of their ranges (textures, storage textures,
\* samplers, constant buffer) targets a binding number that a set layout of
\* the dispatch's pipeline declares with the same descriptor type.
C21_LayoutsMatchDispatch ==
  (host = "recorded" /\ ~kindMismatch(nrdLists[1][1])) =>
    \A i \in DOMAIN cmd :
      isWrapperPush(cmd[i]) =>
        LET p == nrdLists[1][1].pipelineIndex + 1
        IN \A u \in writes(cmd[i]) :
             \E set \in 0..(Len(m_nrd.m_pipelines[p].setBindings) - 1) :
               <<bindingNumber(u.dstBinding), u.descriptorType>> \in declared(p, set)

\* C21 witness: the texture range starts at register 1, all categories share
\* a set, and the recorded push writes a sampled image to a binding number
\* that the layout does not declare as a sampled image
C21_Witness ==
  /\ host = "recorded"
  /\ ~kindMismatch(nrdLists[1][1])
  /\ iDesc.pipelines[1].resourceRanges[1].baseRegisterIndex = 1
  /\ iDesc.samplersBaseRegisterIndex = 0
  /\ Len(m_nrd.m_pipelines[1].setBindings) = 1
  /\ \E i \in DOMAIN cmd :
       /\ isWrapperPush(cmd[i])
       /\ \E n \in DOMAIN cmd[i].updates :
            /\ cmd[i].updates[n].descriptorType = "VK_DESCRIPTOR_TYPE_SAMPLED_IMAGE"
            /\ <<bindingNumber(cmd[i].updates[n].dstBinding), "VK_DESCRIPTOR_TYPE_SAMPLED_IMAGE">>
                 \notin declared(nrdLists[1][1].pipelineIndex + 1, 0)

\* the descriptor types of the bindings of one category
categoryTypes(category) ==
  CASE category = "samplers" -> {"VK_DESCRIPTOR_TYPE_SAMPLER"}
    [] category = "constantBuffer" -> {"VK_DESCRIPTOR_TYPE_UNIFORM_BUFFER"}
    [] category = "resources" -> {"VK_DESCRIPTOR_TYPE_SAMPLED_IMAGE", "VK_DESCRIPTOR_TYPE_STORAGE_IMAGE"}

\* the set index createPipelines computed for a category
categorySetIndex(category) ==
  CASE category = "samplers" -> m_nrd.m_samplersSetIndex
    [] category = "constantBuffer" -> m_nrd.m_constantBufferSetIndex
    [] category = "resources" -> m_nrd.m_resourcesSetIndex

\* C22 as claimed: createPipelines builds per pipeline one set layout per
\* distinct set index, and the bindings of each category (samplers, constant
\* buffer, textures) are all declared in the layout at that category's set
\* index and in no other, also when the samplers have a set of their own.
C22_BindingsInOwnSet ==
  host = "constructed" =>
    \A p \in DOMAIN m_nrd.m_pipelines :
      /\ Len(m_nrd.m_pipelines[p].setBindings) =
           Cardinality({categorySetIndex(c) : c \in {"samplers", "constantBuffer", "resources"}})
      /\ \A c \in {"samplers", "constantBuffer", "resources"} :
           \A set \in 0..(Len(m_nrd.m_pipelines[p].setBindings) - 1) :
             (\E b \in declared(p, set) : b[2] \in categoryTypes(c)) => set = categorySetIndex(c)

\* C22 witness: the samplers have a set of their own (index 1, the resources
\* are in set 2), the layout of that set declares nothing and the sampler
\* bindings are in the layout of set 0
C22_Witness ==
  /\ host = "constructed"
  /\ m_nrd.m_samplersSetIndex = 1
  /\ m_nrd.m_resourcesSetIndex = 2
  /\ declared(1, 1) = {}
  /\ \E b \in declared(1, 0) : b[2] = "VK_DESCRIPTOR_TYPE_SAMPLER"

\* C23 as claimed: for every report of register spaces (1, 2 or 3 distinct
\* sets), a dispatch whose resources have the kinds of their ranges fails no
\* assertion, and for each category of bindings its pipeline has (resources,
\* samplers, constant buffer) a descriptor push to that category's set is
\* recorded.
C23_DispatchForEveryAliasing ==
  (host \in {"recorded", "aborted"} /\ ~kindMismatch(nrdLists[1][1])) =>
    /\ host = "recorded"
    /\ \A c \in {"samplers", "constantBuffer", "resources"} :
         (c = "constantBuffer" => iDesc.pipelines[nrdLists[1][1].pipelineIndex + 1].hasConstantData)
           => \E i \in DOMAIN cmd : isWrapperPush(cmd[i]) /\ cmd[i].set = categorySetIndex(c)

\* C23 witness: three distinct sets, a build with NDEBUG: the dispatch is
\* recorded with its one push to the resources set, none to the samplers set
C23_Witness ==
  /\ host = "recorded"
  /\ NDEBUG
  /\ ~kindMismatch(nrdLists[1][1])
  /\ m_nrd.m_samplersSetIndex = 1
  /\ m_nrd.m_resourcesSetIndex = 2
  /\ \A i \in DOMAIN cmd : isWrapperPush(cmd[i]) => cmd[i].set = 2
  /\ \E i \in DOMAIN cmd : isWrapperPush(cmd[i]) /\ cmd[i].samplerUpdates # <<>>

----------------------------------------------------------------------------
\* Properties of halton

\* the radical inverse of n in the given base: the digits of n mirrored at the
\* point, as a fraction
RECURSIVE radicalInverse(_, _)
radicalInverse(n, base) ==
  IF n = 0 THEN fraction(0, 1)
  ELSE LET rest == radicalInverse(n \div base, base)
       IN fraction((n % base) * rest[2] + rest[1], rest[2] * base)

sameFraction(p, q) == p[1] * q[2] = q[1] * p[2]

\* lower <= p < upper for a fraction p with a positive denominator
fractionWithin(p, lower, upper) == lower[1] * p[2] <= p[1] * lower[2] /\ p[1] * upper[2] < upper[1] * p[2]

\* C29 as claimed: halton(n) returns the radical inverse of n in base 2 and in
\* base 3, both in [0, 1), so that the jitter halton(n) - 0.5 is in [-0.5, 0.5)
C29_HaltonIsRadicalInverse ==
  haltonCall.at = "returned" =>
    /\ sameFraction(haltonCall.result[1], radicalInverse(haltonCall.index, 2))
    /\ sameFraction(haltonCall.result[2], radicalInverse(haltonCall.index, 3))
    /\ \A i \in 1..2 :
         /\ fractionWithin(haltonCall.result[i], fraction(0, 1), fraction(1, 1))
         /\ fractionWithin(minusHalf(haltonCall.result)[i], fraction(-1, 2), fraction(1, 2))

\* a call has returned for an index with more digits in base 2 than in base 3
C29_Witness ==
  /\ haltonCall.at = "returned"
  /\ haltonCall.index = 2
  /\ ~sameFraction(haltonCall.result[1], radicalInverse(2, 2))

\* what does hold: the call returns, the values are in range, and the base-3
\* coordinate is the radical inverse
C29_HaltonInRange ==
  haltonCall.at = "returned" =>
    /\ sameFraction(haltonCall.result[2], radicalInverse(haltonCall.index, 3))
    /\ \A i \in 1..2 :
         /\ fractionWithin(haltonCall.result[i], fraction(0, 1), fraction(1, 1))
         /\ fractionWithin(minusHalf(haltonCall.result)[i], fraction(-1, 2), fraction(1, 2))

C29_HaltonReturns == (haltonCall.at = "loop") ~> (haltonCall.at = "returned")

----------------------------------------------------------------------------
\* Properties of the frames the engine renders

\* the push constants the pass at position k of the commands runs with: for
\* each byte offset the value last pushed before the pass and the range of the
\* layout it was pushed with
RECURSIVE pushConstantsAt(_, _)
pushConstantsAt(commands, k) ==
  IF k <= 1 THEN <<>>
  ELSE LET before == pushConstantsAt(commands, k - 1)
           c == commands[k - 1]
       IN IF c.op = "vkCmdPushConstants"
          THEN [o \in DOMAIN c.values |->
                  [value |-> c.values[o], range |-> pushConstantRange(c.layout.name)]] @@ before
          ELSE before

\* the position of the named pass in the command buffer
passPosition(pass) == CHOOSE k \in DOMAIN cmd : isPass(cmd[k]) /\ cmd[k].pass = pass

\* the identifiers of the denoise() calls of the frame, call by call
denoiseCallsMade ==
  LET isDenoise(c) == c.call = "NRDWrapper::denoise"
      made == SelectSeq(device.calls, isDenoise)
  IN [i \in DOMAIN made |-> made[i].denoisers]

\* C24: in every rendered frame the method nrd.rgen packs with (pc.method of
\* the trace), the method the compositor unpacks with (pc.method of the compose
\* dispatch, pushed with a layout of the same push-constant range) and the
\* denoisers handed to denoise() agree: REBLUR, RELAX, or two REFERENCE
\* instances for any other value
C24_OneMethodPerFrame ==
  host = "recorded" =>
    LET rgen == pushConstantsAt(cmd, passPosition("raygen"))
        composer == pushConstantsAt(cmd, passPosition("compose"))
    IN /\ 12 \in DOMAIN rgen /\ 12 \in DOMAIN composer
       /\ rgen[12].range = pushConstantRange("m_rtxPipe.layout")
       /\ composer[12].range = pushConstantRange("m_compositionLayout")
       /\ composer[12].value = rgen[12].value
       /\ CASE rgen[12].value = NRD_REBLUR ->
                 denoiseCallsMade = << <<identifier("REBLUR_DIFFUSE_SPECULAR", 0)>> >>
            [] rgen[12].value = NRD_RELAX ->
                 denoiseCallsMade = << <<identifier("RELAX_DIFFUSE_SPECULAR", 0)>> >>
            [] OTHER ->
                 /\ Len(denoiseCallsMade) = 2
                 /\ \A i \in 1..2 : /\ Len(denoiseCallsMade[i]) = 1
                                    /\ denoiseCallsMade[i][1].denoiser = "REFERENCE"
                 /\ denoiseCallsMade[1] # denoiseCallsMade[2]

\* a frame rendered with the reference method after frames with another one
C24_Witness ==
  /\ host = "recorded"
  /\ pushConstantsAt(cmd, passPosition("compose"))[12].value = NRD_REFERENCE
  /\ Len(denoiseCallsMade) = 2
  /\ nrdSettingsLog[1].worldToViewMatrixPrev # "zero"

\* a step in which onRender renders a frame
rendersFrame == host = "running" /\ host' = "recorded"

\* a step in which onRender returns at once
returnsEarly == device' # device /\ device'.calls = <<[call |-> "onRender"]>>

\* a step in which one of the resets happens: a resize, a dropped scene or
\* HDR, a change of the method, of the depth or of the frame limit, a reset of
\* the denoiser settings
resetHappens ==
  \/ m_gBuffers' # m_gBuffers
  \/ device'.calls[1].call = "onFileDrop"
  \/ m_pushConst'.method # m_pushConst.method
  \/ m_settings' # m_settings
  \/ m_denoiserSettings' # m_denoiserSettings /\ m_denoiserSettings'.reblur = "default"

C26_PreviousIsLastCurrent ==
  [][rendersFrame /\ nrdSettingsLog # <<>> =>
       /\ nrdSettingsLog'[1].viewToClipMatrixPrev = nrdSettingsLog[1].viewToClipMatrix
       /\ nrdSettingsLog'[1].worldToViewMatrixPrev = nrdSettingsLog[1].worldToViewMatrix
       /\ nrdSettingsLog'[1].cameraJitterPrev = nrdSettingsLog[1].cameraJitter]_vars

\* the first frame after a resize, with another camera and another jitter
\* than the frame before the resize
C26_Witness ==
  /\ host = "recorded"
  /\ m_gBuffers > MaxResizes
  /\ nrdSettingsLog[1].frameIndex = 0
  /\ nrdSettingsLog[1].worldToViewMatrixPrev
       \notin {NoCommonSettings.worldToViewMatrix, nrdSettingsLog[1].worldToViewMatrix}
  /\ nrdSettingsLog[1].viewToClipMatrixPrev
       \notin {NoCommonSettings.viewToClipMatrix, nrdSettingsLog[1].viewToClipMatrix}
  /\ nrdSettingsLog[1].cameraJitterPrev
       \notin {NoCommonSettings.cameraJitter, nrdSettingsLog[1].cameraJitter}

----------------------------------------------------------------------------
\* Properties of the direct lighting and of the images of a background pixel

\* C27 as claimed: the direct lighting stored for a hit pixel is the light
\* contributions at the final surface, plus the emission of the final surface
\* times the throughput of the mirrors, plus the emission gathered along the
\* mirrors once.  After line 388 pbrMat.emissive is the sum of the last two.
C27_MirrorEmissionOnce ==
  pc = "diffuse_sample" =>
    img["DirectLighting"] = [tag |-> "direct", rgb |-> DirectLight + pbrMat.emissive, a |-> 1]

\* the direct lighting of a pixel seen through a mirror that emits
C27_Witness ==
  /\ pc = "diffuse_sample"
  /\ rg.isPsr
  /\ rg.psrDirectRadiance > 0
  /\ img["DirectLighting"].rgb = DirectLight + pbrMat.emissive + rg.psrDirectRadiance

\* what the code stores: the emission gathered along the mirrors twice
C27_MirrorEmissionTwice ==
  pc = "diffuse_sample" =>
    img["DirectLighting"] =
      [tag |-> "direct", rgb |-> DirectLight + pbrMat.emissive + rg.psrDirectRadiance, a |-> 1]

\* the resources of the user pool that the denoisers read as their inputs
DenoiserInputs ==
  {"IN_DIFF_RADIANCE_HITDIST", "IN_SPEC_RADIANCE_HITDIST", "IN_NORMAL_ROUGHNESS", "IN_MV", "IN_VIEWZ"}

\* the texel has been stored to in this frame
writtenThisFrame(image) == img[image] \notin {Undefined, Stale}

\* C28 as claimed: when the ray generation shader has finished a background
\* pixel, it has written every image registered as a denoiser input: diffuse
\* radiance, specular radiance, normal/roughness, motion vectors, view depth
C28_BackgroundWritesInputs ==
  pc = "denoise" /\ rg.hitSky => \A r \in DenoiserInputs : writtenThisFrame(pool[r])

\* a background pixel whose motion-vector texel is what an earlier frame, or
\* nothing, left there
C28_Witness ==
  /\ pc = "denoise"
  /\ rg.hitSky
  /\ ~writtenThisFrame(pool["IN_MV"])
  /\ \A r \in DenoiserInputs \ {"IN_MV"} : writtenThisFrame(pool[r])

\* what does hold: every input but the motion vectors is written
C28_BackgroundWritesAllButMotion ==
  pc = "denoise" /\ rg.hitSky => \A r \in DenoiserInputs \ {"IN_MV"} : writtenThisFrame(pool[r])

----------------------------------------------------------------------------
\* Properties of the reference path

\* the noisy input and the output of the lobe that the first (diffuse) and the
\* second (specular) denoise() call of the reference path work on
lobeSignal(call, type) ==
  [kind |-> "gbuffer", set |-> m_gBuffers,
   name |-> IF type = "IN_SIGNAL"
            THEN (IF call = 1 THEN "DiffRadianceHitDist" ELSE "SpecRadianceHitDist")
            ELSE (IF call = 1 THEN "OutDiffRadianceHitDist" ELSE "OutSpecRadianceHitDist")]

\* the descriptor push recorded for the k-th dispatch of the wrapper
pushOf(k) ==
  cmd[CHOOSE i \in (dispatchPosition(k - 1) + 1)..(dispatchPosition(k) - 1) : isWrapperPush(cmd[i])]

\* C30: in reference mode the dispatches of the first denoise() call are
\* recorded before those of the second, in the order NRD returned them; a
\* dispatch of the first call binds the noisy diffuse image wherever it names
\* IN_SIGNAL and the diffuse output wherever it names OUT_SIGNAL, a dispatch of
\* the second call the specular ones, so that the second re-pointing changes
\* nothing recorded before it; a dispatch that names OUT_SIGNAL writes the
\* output of its lobe, and a dispatch that names no other user-pool resource
\* touches neither image of the other lobe
C30_ReferenceCalls ==
  host = "recorded" /\ Len(nrdLists) = 2 =>
    LET all == concat(nrdLists)
    IN /\ Len(SelectSeq(cmd, isWrapperDispatch)) = Len(all)
       /\ \A k \in 1..Len(all) :
            LET call        == IF k <= Len(nrdLists[1]) THEN 1 ELSE 2
                resources   == all[k].resources
                named(type) == {n \in DOMAIN resources : resources[n].type = type}
                d           == cmd[dispatchPosition(k)]
            IN /\ d.x = all[k].gridWidth
               /\ \A type \in {"IN_SIGNAL", "OUT_SIGNAL"} : \A n \in named(type) :
                    pushOf(k).updates[n].imageView = lobeSignal(call, type)
               /\ named("OUT_SIGNAL") # {} => lobeSignal(call, "OUT_SIGNAL") \in d.writes
               /\ (\A n \in DOMAIN resources :
                     resources[n].type \in {"IN_SIGNAL", "OUT_SIGNAL", "TRANSIENT_POOL", "PERMANENT_POOL"})
                    => (d.reads \cup d.writes)
                         \cap {lobeSignal(3 - call, "IN_SIGNAL"), lobeSignal(3 - call, "OUT_SIGNAL")} = {}

\* a reference frame in which each of the two calls recorded the dispatch
\* from IN_SIGNAL to OUT_SIGNAL
C30_Witness ==
  /\ host = "recorded"
  /\ Len(nrdLists) = 2
  /\ Len(nrdLists[1]) = 1 /\ Len(nrdLists[2]) = 1
  /\ \A k \in 1..2 :
       /\ \E n \in DOMAIN nrdLists[k][1].resources : nrdLists[k][1].resources[n].type = "OUT_SIGNAL"
       /\ cmd[dispatchPosition(k)].reads = {lobeSignal(k, "IN_SIGNAL")}
       /\ cmd[dispatchPosition(k)].writes = {lobeSignal(k, "OUT_SIGNAL")}
====
